---- MODULE Spec2Model ----
(***************************************************************************)
(* Model of the parallel top-K ranking kernel of ai-image-finder:          *)
(*   textmatch.Score / textmatch.Rank     (sequential reference)           *)
(*   bsp.RankBSP + bsp.Barrier            (bulk-synchronous)               *)
(*   pipeline.RankScoringPipeline         (channels)                       *)
(*   ws.RankWS + ws.Deque + ws.Collector  (work stealing)                  *)
(*                                                                         *)
(* Representation choices:                                                 *)
(*  - a text is the sequence of its lower-cased letter runs (words);       *)
(*  - a PhotoID is the sequence of its character codes, compared           *)
(*    lexicographically as Go compares strings;                            *)
(*  - a float32 score is a fixed-point integer (ScoreScale units);         *)
(*  - nil and the empty slice are both <<>>.                               *)
(***************************************************************************)
EXTENDS Integers, Sequences, FiniteSets, TLC

(* ------------------------------ bounds -------------------------------- *)
\* longest candidate list handed to a ranker
MaxPhotos == 3
\* longest candidate list handed to RankBSP (its chunking needs N = 5)
MaxPhotosBSP == 5
\* largest topK requested (0 is the degenerate request)
MaxTopK == 2
\* largest worker / scorer count requested of the pipeline and of RankWS
\* (0, the invalid request, is requested too)
MaxWorkers == 2
\* largest worker count requested of RankBSP (-1 and 0 are requested too)
MaxWorkersBSP == 5
\* runtime.NumCPU() of the machine the rankers run on
NumCPU == 2
\* most goroutines sharing one Barrier in the barrier tests
MaxGoroutines == 3
\* most cycles each of them runs
MaxCycles == 3
\* most tasks in the deque the concurrent pops drain
MaxTasks == 3
\* most stealers popping from it next to the owner
MaxStealers == 2
\* most scored photos offered to the Collector by concurrent pushers
MaxOffers == 3
\* most goroutines calling Collector.Push concurrently
MaxPushers == 2
\* most words in a query and in a photo description handed to Score
MaxQueryWords == 2
MaxPhotoWords == 3
\* most times a description is repeated
MaxRepeat == 3
\* most goroutines calling Score concurrently, and most words in their texts
MaxCalls == 2
\* most workers of RankWS where steal rounds are followed, and how many of
\* them are running
MaxStealWorkers == 5
\* most pops in a sequence of Deque operations
MaxPops == 4
\* scores and download counts of the scored photos compared pairwise
MaxOrderValue == 1
\* New is tried with sizes from -MaxNonPositive up
MaxNonPositive == 1
MaxRunning == 2
MaxCallWords == 2

(* ------------------------- tokenizer (tokenize.go) -------------------- *)
\* the part of the stopword list the modelled vocabulary touches
stopwords == {"a", "an", "the", "of", "in", "and", "photo", "view"}

\* len(word): the byte length of a word of the modelled vocabulary
ByteLen(word) ==
  CASE word \in {"a", "b"} -> 1
    \* "U+00E9" stands for the one-letter word of the letter U+00E9 (e with
    \* an acute accent), which UTF-8 encodes in two bytes
    [] word \in {"an", "of", "in", "U+00E9"} -> 2
    [] OTHER -> 3

\* porterstemmer.StemString on the modelled vocabulary
StemString(word) ==
  CASE word = "large" -> "larg"
    [] word = "automobile" -> "automobil"
    [] word = "cars" -> "car"
    [] OTHER -> word

\* loadedSynonymMap: surface word -> list of surface synonyms
loadedSynonymMap(word) ==
  CASE word = "big" -> <<"large", "a">>
    [] word = "car" -> <<"automobile", "view">>
    [] OTHER -> <<>>

Range(s) == {s[x] : x \in DOMAIN s}

\* the stems a surviving surface word contributes
WordTokens(word, expandSynonyms) ==
  IF word \notin stopwords /\ ByteLen(word) > 1
  THEN {StemString(word)} \cup
       (IF expandSynonyms
        THEN {StemString(syn) : syn \in {s \in Range(loadedSynonymMap(word)) :
                                          s \notin stopwords /\ ByteLen(s) > 1}}
        ELSE {})
  ELSE {}

getStemmedTokensSet(s, expandSynonyms) ==
  UNION {WordTokens(s[x], expandSynonyms) : x \in DOMAIN s}

(* ----------------------------- Score (score.go) ----------------------- *)
\* bonuses in tenths: 10.0 and 1.5
originalWordMatchBonus == 100
synonymMatchBonus == 15
\* fixed-point scale of a score
ScoreScale == 10000

\* math.Log(1 + n) in thousandths
LogMilli(n) ==
  CASE n = 1 -> 693 [] n = 2 -> 1099 [] n = 3 -> 1386 [] n = 4 -> 1609
    [] n = 5 -> 1792 [] n = 6 -> 1946 [] OTHER -> 2079

photoText(photo) ==
  photo.PhotoDescription \o photo.AiDescription \o
  photo.PhotoLocationCountry \o photo.PhotoLocationCity

RECURSIVE SumOver(_, _)
SumOver(S, f) ==
  IF S = {} THEN 0
  ELSE LET x == CHOOSE y \in S : TRUE IN f[x] + SumOver(S \ {x}, f)

rawScore(q, photo) ==
  LET originalQueryTokenSet == getStemmedTokensSet(q, FALSE)
      allQueryTokensSet == getStemmedTokensSet(q, TRUE)
      photoOriginalsSet == getStemmedTokensSet(photoText(photo), FALSE)
  IN SumOver(photoOriginalsSet,
             [t \in photoOriginalsSet |->
                IF t \in originalQueryTokenSet THEN originalWordMatchBonus
                ELSE IF t \in allQueryTokensSet THEN synonymMatchBonus
                ELSE 0])

\* mutant: the photo's text is synonym-expanded like the query
ScoreExpandedPhoto(q, photo) ==
  LET originalQueryTokenSet == getStemmedTokensSet(q, FALSE)
      allQueryTokensSet == getStemmedTokensSet(q, TRUE)
      photoTokens == getStemmedTokensSet(photoText(photo), TRUE)
      raw == SumOver(photoTokens,
               [t \in photoTokens |->
                  IF t \in originalQueryTokenSet THEN originalWordMatchBonus
                  ELSE IF t \in allQueryTokensSet THEN synonymMatchBonus
                  ELSE 0])
  IN IF photoTokens = {} THEN 0
     ELSE IF raw = 0 THEN 0
     ELSE (raw * ScoreScale) \div LogMilli(Cardinality(photoTokens))

\* mutant: the normaliser counts the words of the text, not its stems
ScoreCountsWords(q, photo) ==
  LET photoOriginalsSet == getStemmedTokensSet(photoText(photo), FALSE)
      raw == rawScore(q, photo)
  IN IF photoOriginalsSet = {} THEN 0
     ELSE IF raw = 0 THEN 0
     ELSE (raw * ScoreScale) \div LogMilli(Len(photoText(photo)))

Score(q, photo) ==
  LET photoOriginalsSet == getStemmedTokensSet(photoText(photo), FALSE)
      raw == rawScore(q, photo)
  IN IF photoOriginalsSet = {} THEN 0
     ELSE IF raw = 0 THEN 0
     ELSE (raw * ScoreScale) \div LogMilli(Cardinality(photoOriginalsSet))

(* --------------------------- string comparison ------------------------ *)
RECURSIVE StrLess(_, _)
\* Go's a < b on strings: lexicographic on the character codes
StrLess(a, b) ==
  IF b = <<>> THEN FALSE
  ELSE IF a = <<>> THEN TRUE
  ELSE IF a[1] # b[1] THEN a[1] < b[1]
  ELSE StrLess(Tail(a), Tail(b))

(* ------------------- ordering: photoHeap.Less, 4 copies ---------------- *)
\* textmatch.photoHeap.Less: a is less preferred than b
TextmatchLess(a, b) ==
  IF a.score # b.score THEN a.score < b.score
  ELSE IF a.photo.StatsDownloads # b.photo.StatsDownloads
       THEN a.photo.StatsDownloads < b.photo.StatsDownloads
  ELSE StrLess(b.photo.PhotoID, a.photo.PhotoID)

\* bsp.photoHeap.Less
BspLess(a, b) ==
  IF a.score # b.score THEN a.score < b.score
  ELSE IF a.photo.StatsDownloads # b.photo.StatsDownloads
       THEN a.photo.StatsDownloads < b.photo.StatsDownloads
  ELSE StrLess(b.photo.PhotoID, a.photo.PhotoID)

\* mutant: the pipeline's heap prefers the larger id on a full tie
PipelineLessIdAsc(a, b) ==
  IF a.score # b.score THEN a.score < b.score
  ELSE IF a.photo.StatsDownloads # b.photo.StatsDownloads
       THEN a.photo.StatsDownloads < b.photo.StatsDownloads
  ELSE StrLess(a.photo.PhotoID, b.photo.PhotoID)

\* pipeline.photoHeap.Less
PipelineLess(a, b) ==
  IF a.score # b.score THEN a.score < b.score
  ELSE IF a.photo.StatsDownloads # b.photo.StatsDownloads
       THEN a.photo.StatsDownloads < b.photo.StatsDownloads
  ELSE StrLess(b.photo.PhotoID, a.photo.PhotoID)

\* ws.photoHeap.Less
WsLess(a, b) ==
  IF a.score # b.score THEN a.score < b.score
  ELSE IF a.photo.StatsDownloads # b.photo.StatsDownloads
       THEN a.photo.StatsDownloads < b.photo.StatsDownloads
  ELSE StrLess(b.photo.PhotoID, a.photo.PhotoID)

\* h.Less(i, j) of the package's photoHeap
Less(pkg, a, b) ==
  CASE pkg = "textmatch" -> TextmatchLess(a, b)
    [] pkg = "bsp" -> BspLess(a, b)
    [] pkg = "pipeline" -> PipelineLess(a, b)
    [] pkg = "ws" -> WsLess(a, b)

(* ------------------- container/heap on a photoHeap -------------------- *)
\* heaps are 0-indexed slices: element i of the slice is hp[i + 1]
Swap(hp, x, y) == [hp EXCEPT ![x + 1] = hp[y + 1], ![y + 1] = hp[x + 1]]

RECURSIVE up(_, _, _)
up(pkg, hp, j) ==
  LET par == IF j = 0 THEN 0 ELSE (j - 1) \div 2
  IN IF par = j \/ ~Less(pkg, hp[j + 1], hp[par + 1]) THEN hp
     ELSE up(pkg, Swap(hp, par, j), par)

RECURSIVE down(_, _, _, _)
down(pkg, hp, x, n) ==
  LET j1 == 2 * x + 1
      j2 == j1 + 1
      j == IF j2 < n /\ Less(pkg, hp[j2 + 1], hp[j1 + 1]) THEN j2 ELSE j1
  IN IF j1 >= n THEN hp
     ELSE IF ~Less(pkg, hp[j + 1], hp[x + 1]) THEN hp
     ELSE down(pkg, Swap(hp, x, j), j, n)

\* mutant: a Push that appends without restoring the heap order
HeapPushNoUp(pkg, hp, x) == Append(hp, x)

\* heap.Push(h, x)
HeapPush(pkg, hp, x) == up(pkg, Append(hp, x), Len(hp))

\* heap.Pop(h): the heap that is left
HeapPopRest(pkg, hp) ==
  LET n == Len(hp) - 1
  IN SubSeq(down(pkg, Swap(hp, 0, n), 0, n), 1, n)

\* heap.Pop(h): the element returned (the root)
HeapPopTop(hp) == hp[1]

(* ----------------------- the replacement test ------------------------- *)
\* mutant: the replacement test without the id tie-break
shouldReplaceNoId(sp, root) ==
  IF sp.score > root.score THEN TRUE
  ELSE IF sp.score = root.score
       THEN sp.photo.StatsDownloads > root.photo.StatsDownloads
  ELSE FALSE

\* textmatch.Rank, score.go:145-156
shouldReplace(sp, root) ==
  IF sp.score > root.score THEN TRUE
  ELSE IF sp.score = root.score
       THEN IF sp.photo.StatsDownloads > root.photo.StatsDownloads THEN TRUE
            ELSE IF sp.photo.StatsDownloads = root.photo.StatsDownloads
                 THEN StrLess(sp.photo.PhotoID, root.photo.PhotoID)
                 ELSE FALSE
  ELSE FALSE

\* mutant: an offer to a full heap that replaces the root whatever the
\* offered photo is
RankOfferAlways(hp, sp, kk) ==
  IF Len(hp) < kk THEN HeapPush("textmatch", hp, sp)
  ELSE IF Len(hp) > 0
       THEN HeapPush("textmatch", HeapPopRest("textmatch", hp), sp)
  ELSE hp

\* the offer of textmatch.Rank's loop body, score.go:139-162
RankOffer(hp, sp, kk) ==
  IF Len(hp) < kk THEN HeapPush("textmatch", hp, sp)
  ELSE IF Len(hp) > 0
       THEN IF shouldReplace(sp, hp[1])
            THEN HeapPush("textmatch", HeapPopRest("textmatch", hp), sp)
            ELSE hp
  ELSE hp

(* --------------------------- final sort ------------------------------- *)
\* mutant: the comparator with the id order reversed
RankBeforeIdDesc(a, b) ==
  IF a.score # b.score THEN a.score > b.score
  ELSE IF a.photo.StatsDownloads # b.photo.StatsDownloads
       THEN a.photo.StatsDownloads > b.photo.StatsDownloads
  ELSE StrLess(b.photo.PhotoID, a.photo.PhotoID)

\* the comparator of sort.Slice in textmatch.Rank: a goes before b
RankBefore(a, b) ==
  IF a.score # b.score THEN a.score > b.score
  ELSE IF a.photo.StatsDownloads # b.photo.StatsDownloads
       THEN a.photo.StatsDownloads > b.photo.StatsDownloads
  ELSE StrLess(a.photo.PhotoID, b.photo.PhotoID)

\* the comparator of sort.Slice in RankBSP
BspBefore(a, b) ==
  IF a.score # b.score THEN a.score > b.score
  ELSE IF a.photo.StatsDownloads # b.photo.StatsDownloads
       THEN a.photo.StatsDownloads > b.photo.StatsDownloads
  ELSE StrLess(a.photo.PhotoID, b.photo.PhotoID)

\* the comparator of sort.Slice in pipeline.collectResults
PipelineBefore(a, b) ==
  IF a.score # b.score THEN a.score > b.score
  ELSE IF a.photo.StatsDownloads # b.photo.StatsDownloads
       THEN a.photo.StatsDownloads > b.photo.StatsDownloads
  ELSE StrLess(a.photo.PhotoID, b.photo.PhotoID)

\* the comparator of sort.Slice in Collector.GetRankedPhotos
WsBefore(a, b) ==
  IF a.score # b.score THEN a.score > b.score
  ELSE IF a.photo.StatsDownloads # b.photo.StatsDownloads
       THEN a.photo.StatsDownloads > b.photo.StatsDownloads
  ELSE StrLess(a.photo.PhotoID, b.photo.PhotoID)

Before(pkg, a, b) ==
  CASE pkg = "textmatch" -> RankBefore(a, b)
    [] pkg = "bsp" -> BspBefore(a, b)
    [] pkg = "pipeline" -> PipelineBefore(a, b)
    [] pkg = "ws" -> WsBefore(a, b)

RECURSIVE InsertSorted(_, _, _)
InsertSorted(pkg, s, x) ==
  IF s = <<>> THEN <<x>>
  ELSE IF Before(pkg, x, s[1]) THEN <<x>> \o s
  ELSE <<s[1]>> \o InsertSorted(pkg, Tail(s), x)

RECURSIVE SortSlice(_, _)
\* sort.Slice(scored, less): the slice ordered by the package's comparator
SortSlice(pkg, s) ==
  IF s = <<>> THEN <<>>
  ELSE InsertSorted(pkg, SortSlice(pkg, SubSeq(s, 1, Len(s) - 1)), s[Len(s)])

RECURSIVE PopAll(_, _)
\* heap.Pop until the heap is empty: smallest first
PopAll(pkg, hp) ==
  IF hp = <<>> THEN <<>>
  ELSE <<HeapPopTop(hp)>> \o PopAll(pkg, HeapPopRest(pkg, hp))

Reverse(s) == [x \in 1..Len(s) |-> s[Len(s) + 1 - x]]

PhotosOf(s) == [x \in 1..Len(s) |-> s[x].photo]

\* textmatch.Rank's extraction, score.go:165-187
RankDrain(hp) == PhotosOf(SortSlice("textmatch", PopAll("textmatch", hp)))

RECURSIVE RankLoop(_, _, _, _)
RankLoop(q, ps, kk, hp) ==
  IF ps = <<>> THEN hp
  ELSE RankLoop(q, Tail(ps), kk,
                RankOffer(hp, [photo |-> ps[1], score |-> Score(q, ps[1])], kk))

\* Rank's guard (score.go:128)
RankGuard(kk, ps) == kk <= 0 \/ Len(ps) = 0

\* textmatch.Rank(query, photos, k)
Rank(q, ps, kk) ==
  IF RankGuard(kk, ps) THEN <<>>
  ELSE RankDrain(RankLoop(q, ps, kk, <<>>))

IDs(ps) == [x \in 1..Len(ps) |-> ps[x].PhotoID]

(* ------------------------------ inputs -------------------------------- *)
Photo(id, desc, ai, downloads) ==
  [PhotoID |-> id, PhotoDescription |-> desc, AiDescription |-> ai,
   PhotoLocationCountry |-> <<>>, PhotoLocationCity |-> <<>>,
   StatsDownloads |-> downloads]

\* for the query foo: "A" and "B" tie on score and downloads; "AA" ties
\* with them on score and has more downloads; "C" scores 0
PhotoPool ==
  { Photo(<<65>>, <<"foo">>, <<>>, 5),
    Photo(<<66>>, <<"foo">>, <<>>, 5),
    Photo(<<65, 65>>, <<"the", "foo">>, <<"foo">>, 9),
    Photo(<<67>>, <<"baz">>, <<"a", "view">>, 9) }

\* the photos of the longer lists RankBSP is run on
PhotoPoolBSP ==
  { Photo(<<65>>, <<"foo">>, <<>>, 5),
    Photo(<<67>>, <<"baz">>, <<"a", "view">>, 9) }

Queries == { <<"foo">> }

BoundedSeq(S, n) == UNION {[1..m -> S] : m \in 0..n}

VARIABLES
  mode,            \* which ranker the call is to
  query, photos, topK, reqWorkers,   \* the arguments of the call
  pc,              \* position of the calling goroutine
  result,          \* the slice returned (<<>> is nil)
  numWorkers,      \* numWorkers / numScorers after clamping (0: not yet)
  i,               \* loop index of the calling goroutine
  h,               \* the top-K heap: Rank's h, RankBSP's finalHeap,
                   \* collectResults' h, Collector.h
  started,         \* goroutines started so far by the call
  created,         \* heaps, barriers, channels, deques created by the call
  wpc,             \* position of each worker goroutine
  held,            \* what each worker holds: <<>> or <<item>>
  localHeaps,      \* RankBSP: localHeaps
  chunks,          \* RankBSP: [start, end) of each launched worker
  count,           \* Barrier.count
  wg,              \* wg (BSP), scorerWg (pipeline), workerPoolWg (WS)
  photosToScoreCh, \* pipeline: buffered channel of candidates
  resultsCh,       \* pipeline: buffered channel of scoredPhoto
  closedCh,        \* pipeline: the channels closed so far
  finalRanked,     \* pipeline: the list collectResults returned
  cpc,             \* pipeline: position of the collector goroutine
  clpc,            \* pipeline: position of the closer goroutine
  deques,          \* WS: deques[w].tasks
  tasksWg,         \* WS: outstanding-task counter
  quitSignal,      \* WS: TRUE once close(quitSignal)
  tried,           \* WS: victims a worker tried in this steal round
  hist,            \* history: per-task counts and counter events
  gpc,             \* unit tests: position of each test goroutine
  numGoroutines,   \* TestBarrierReuse: numGoroutines, the barrier's n
  numCycles,       \* TestBarrierReuse: numCycles
  cycle,           \* TestBarrierReuse: each goroutine's loop variable
  counters,        \* TestBarrierReuse: counters[cycle]
  waitCalls,       \* history: calls of Wait each goroutine has made
  waitReturns,     \* history: calls of Wait each goroutine returned from
  mu,              \* Deque.mu / Collector.mu: the goroutine holding it, or -1
  dTasks,          \* Deque.tasks
  popTask,         \* PopBottom / PopTop: each goroutine's local task
  returned,        \* history: what each goroutine's pops returned (0: false)
  numTasks,        \* the tasks the deque started with are 1..numTasks
  pending,         \* the scored photos no pusher has taken up yet
  pushSp,          \* Collector.Push: each pusher's argument sp
  pushRoot,        \* Collector.Push: each pusher's local root
  numResults,      \* GetRankedPhotos: numResults
  scoredResults,   \* GetRankedPhotos: scoredResults[i+1:]
  ranked,          \* what GetRankedPhotos returned (<<>> is nil)
  order,           \* history: the calls in the order they took c.mu,
                   \* <<sp>> for Push(sp) and <<>> for GetRankedPhotos
  scores,          \* what Score returned for photos[1], photos[2], ...
  synTable,        \* the map loadedSynonymMap in memory (<<>> is nil)
  scLocal,         \* concurrent Score calls: each call's local variables
  verdicts         \* what each package's three comparisons said of
                   \* scoredResults[1] and scoredResults[2] (<<>>: not asked)

inputs == <<mode, query, photos, topK, reqWorkers>>
mainVars == <<pc, result, numWorkers, i, h, started, created>>
workerVars == <<wpc, held>>
bspVars == <<localHeaps, chunks, count>>
pipeVars == <<photosToScoreCh, resultsCh, closedCh, finalRanked, cpc, clpc>>
wsVars == <<deques, tasksWg, quitSignal, tried>>
barVars == <<numGoroutines, numCycles, cycle, counters, waitCalls,
             waitReturns>>
dequeVars == <<dTasks, popTask, returned, numTasks>>
collVars == <<pending, pushSp, pushRoot, numResults, scoredResults, ranked, order>>
callVars == <<synTable, scLocal, verdicts>>
harnessVars == <<gpc, mu, barVars, dequeVars, collVars, scores, callVars>>
vars == <<inputs, mainVars, workerVars, bspVars, pipeVars, wsVars, wg, hist,
          harnessVars>>

\* history: the tally b with one more x
Tally(b, x) ==
  IF x \in DOMAIN b THEN [b EXCEPT ![x] = @ + 1]
  ELSE [y \in DOMAIN b \cup {x} |-> IF y = x THEN 1 ELSE b[y]]

InitHist == [taken |-> <<>>, pushed |-> <<>>, decs |-> 0, zeros |-> 0,
             stolen |-> 0, collected |-> <<>>]

\* no unit test is running
InitBarrierIdle ==
  /\ numGoroutines = 0 /\ numCycles = 0 /\ cycle = <<>> /\ counters = <<>>
  /\ waitCalls = <<>> /\ waitReturns = <<>>

InitDequeIdle ==
  dTasks = <<>> /\ popTask = <<>> /\ returned = <<>> /\ numTasks = 0

InitCollectorIdle ==
  /\ pending = {} /\ pushSp = <<>> /\ pushRoot = <<>> /\ numResults = 0
  /\ scoredResults = <<>> /\ ranked = <<>> /\ order = <<>>

\* package initialisation is over and no Score call is being followed
InitCallsIdle ==
  /\ synTable = [word \in {"big", "car"} |-> loadedSynonymMap(word)]
  /\ scLocal = <<>> /\ verdicts = <<>>

InitHarness ==
  /\ gpc = <<>> /\ mu = -1
  /\ InitBarrierIdle /\ InitDequeIdle /\ InitCollectorIdle /\ InitCallsIdle
  /\ scores = <<>>

InitRanker ==
  /\ pc = "call" /\ result = <<>> /\ numWorkers = 0 /\ i = 0 /\ h = <<>>
  /\ started = 0 /\ created = {}
  /\ wpc = <<>> /\ held = <<>>
  /\ localHeaps = <<>> /\ chunks = <<>> /\ count = 0 /\ wg = 0
  /\ photosToScoreCh = <<>> /\ resultsCh = <<>> /\ closedCh = {}
  /\ finalRanked = <<>> /\ cpc = "none" /\ clpc = "none"
  /\ deques = <<>> /\ tasksWg = 0 /\ quitSignal = FALSE /\ tried = <<>>
  /\ hist = InitHist

InitState == InitRanker /\ InitHarness

InitArgs(m, lists, workerCounts) ==
  /\ mode = m
  /\ query \in Queries
  /\ photos \in lists
  /\ topK \in -1..MaxTopK
  /\ reqWorkers \in workerCounts

(* ------------------- sequential: textmatch.Rank ----------------------- *)
\* Rank's guard (score.go:128-133)
SeqCall ==
  /\ mode = "seq" /\ pc = "call"
  /\ IF RankGuard(topK, photos)
     THEN /\ pc' = "done" /\ result' = <<>>
          /\ UNCHANGED <<h, created>>
     ELSE /\ pc' = "loop" /\ h' = <<>> /\ created' = {"heap"}
          /\ UNCHANGED result
  /\ UNCHANGED <<harnessVars, inputs, numWorkers, i, started, workerVars, bspVars,
                 pipeVars, wsVars, wg, hist>>

\* one iteration of Rank's loop (score.go:135-163)
SeqOffer ==
  /\ mode = "seq" /\ pc = "loop" /\ i < Len(photos)
  /\ h' = RankOffer(h, [photo |-> photos[i + 1],
                        score |-> Score(query, photos[i + 1])], topK)
  /\ i' = i + 1
  /\ UNCHANGED <<harnessVars, inputs, pc, result, numWorkers, started, created,
                 workerVars, bspVars, pipeVars, wsVars, wg, hist>>

\* Rank's extraction and sort (score.go:165-187)
SeqDrain ==
  /\ mode = "seq" /\ pc = "loop" /\ i = Len(photos)
  /\ result' = RankDrain(h)
  /\ h' = <<>>
  /\ pc' = "done"
  /\ UNCHANGED <<harnessVars, inputs, numWorkers, i, started, created,
                 workerVars, bspVars, pipeVars, wsVars, wg, hist>>

NextSeq == SeqCall \/ SeqOffer \/ SeqDrain

InitSeq == InitState /\ InitArgs("seq", BoundedSeq(PhotoPool, MaxPhotos), {1})

SpecSeq == InitSeq /\ [][NextSeq]_vars

(* ------------------------- BSP: bsp.RankBSP --------------------------- *)
\* barrier.go:127-138 and 164-175
bspShouldReplace(sp, root) ==
  IF sp.score > root.score THEN TRUE
  ELSE IF sp.score = root.score
       THEN IF sp.photo.StatsDownloads > root.photo.StatsDownloads THEN TRUE
            ELSE IF sp.photo.StatsDownloads = root.photo.StatsDownloads
                 THEN StrLess(sp.photo.PhotoID, root.photo.PhotoID)
                 ELSE FALSE
  ELSE FALSE

\* mutant: a local heap keeps its chunk's single best photo
BspLocalOfferTopOne(hp, sp, kk) ==
  IF Len(hp) < 1 THEN HeapPush("bsp", hp, sp)
  ELSE IF bspShouldReplace(sp, hp[1])
       THEN HeapPush("bsp", HeapPopRest("bsp", hp), sp)
       ELSE hp

\* the worker's offer to its local heap (barrier.go:123-143)
BspLocalOffer(hp, sp, kk) ==
  IF Len(hp) < kk THEN HeapPush("bsp", hp, sp)
  ELSE IF Len(hp) > 0
       THEN IF bspShouldReplace(sp, hp[1])
            THEN HeapPush("bsp", HeapPopRest("bsp", hp), sp)
            ELSE hp
  ELSE hp

\* the reduce phase's offer to finalHeap (barrier.go:160-180)
BspFinalOffer(hp, sp, kk) ==
  IF Len(hp) < kk THEN HeapPush("bsp", hp, sp)
  ELSE IF bspShouldReplace(sp, hp[1])
       THEN HeapPush("bsp", HeapPopRest("bsp", hp), sp)
       ELSE hp

RECURSIVE BspReduceOne(_, _, _)
\* for localH.Len() > 0 { sp := heap.Pop(localH); offer sp to finalHeap }
BspReduceOne(final, localH, kk) ==
  IF localH = <<>> THEN final
  ELSE BspReduceOne(BspFinalOffer(final, HeapPopTop(localH), kk),
                    HeapPopRest("bsp", localH), kk)

RECURSIVE BspReduceAll(_, _, _)
\* for _, localH := range localHeaps { ... }
BspReduceAll(final, lhs, kk) ==
  IF lhs = <<>> THEN final
  ELSE BspReduceAll(BspReduceOne(final, lhs[1], kk), Tail(lhs), kk)

\* RankBSP's extraction and sort (barrier.go:184-205)
BspDrain(hp) == PhotosOf(SortSlice("bsp", Reverse(PopAll("bsp", hp))))

\* the clamp of RankBSP (barrier.go:91-96)
BspClamp(req, n) ==
  LET w1 == IF req <= 0 THEN 1 ELSE req
  IN IF w1 > n THEN n ELSE w1

\* chunkSize := (len(photos) + numWorkers - 1) / numWorkers
chunkSize(n, nw) == (n + nw - 1) \div nw

chunkStart(x, n, nw) == x * chunkSize(n, nw)

chunkEnd(x, n, nw) ==
  IF (x + 1) * chunkSize(n, nw) > n THEN n ELSE (x + 1) * chunkSize(n, nw)

\* RankBSP's guard (barrier.go:88)
BspGuard(kk, ps) == kk <= 0 \/ Len(ps) = 0

\* RankBSP's guard, clamp and allocation (barrier.go:88-102)
BSPCall ==
  /\ mode = "bsp" /\ pc = "call"
  /\ IF BspGuard(topK, photos)
     THEN /\ pc' = "done" /\ result' = <<>>
          /\ UNCHANGED <<numWorkers, created, localHeaps, wpc, held, chunks>>
     ELSE LET nw == BspClamp(reqWorkers, Len(photos))
          IN /\ pc' = "launch"
             /\ numWorkers' = nw
             /\ created' = {"barrier"}
             /\ localHeaps' = [x \in 1..nw |-> <<>>]
             /\ wpc' = [x \in 0..(nw - 1) |-> "unborn"]
             /\ held' = [x \in 0..(nw - 1) |-> <<>>]
             /\ chunks' = [x \in 0..(nw - 1) |-> [start |-> 0, end |-> 0]]
             /\ UNCHANGED result
  /\ UNCHANGED <<harnessVars, inputs, i, h, started, count, pipeVars, wsVars, wg, hist>>

\* one iteration of the launch loop (barrier.go:104-147); the slice
\* expression photos[start:end] panics when start > end
BSPLaunch ==
  /\ mode = "bsp" /\ pc = "launch" /\ i < numWorkers
  /\ LET start == chunkStart(i, Len(photos), numWorkers)
         end == chunkEnd(i, Len(photos), numWorkers)
     IN /\ wg' = wg + 1
        /\ IF start > end
           THEN /\ pc' = "panic"
                /\ UNCHANGED <<i, started, created, wpc, chunks>>
           ELSE /\ chunks' = [chunks EXCEPT ![i] = [start |-> start, end |-> end]]
                /\ created' = created \cup {"heap"}
                /\ wpc' = [wpc EXCEPT ![i] = "score"]
                /\ started' = started + 1
                /\ i' = i + 1
                /\ UNCHANGED pc
  /\ UNCHANGED <<harnessVars, inputs, result, numWorkers, h, held, localHeaps, count,
                 pipeVars, wsVars, hist>>

\* a worker scores the next photo of its chunk (barrier.go:119-144)
BSPScore(w) ==
  /\ mode = "bsp" /\ w \in DOMAIN wpc /\ wpc[w] = "score"
  /\ pc # "panic"
  /\ chunks[w].start < chunks[w].end
  /\ LET p == photos[chunks[w].start + 1]
     IN localHeaps' = [localHeaps EXCEPT ![w + 1] =
          BspLocalOffer(@, [photo |-> p, score |-> Score(query, p)], topK)]
  /\ chunks' = [chunks EXCEPT ![w].start = @ + 1]
  /\ UNCHANGED <<harnessVars, inputs, mainVars, workerVars, count, pipeVars, wsVars,
                 wg, hist>>

\* Barrier.Wait up to cond.Wait or Broadcast (barrier.go:27-38)
BSPBarrierWait(w) ==
  /\ mode = "bsp" /\ w \in DOMAIN wpc /\ wpc[w] = "score"
  /\ pc # "panic"
  /\ chunks[w].start = chunks[w].end
  /\ IF count + 1 < numWorkers
     THEN /\ count' = count + 1
          /\ wpc' = [wpc EXCEPT ![w] = "waiting"]
     ELSE /\ count' = 0
          /\ wpc' = [x \in DOMAIN wpc |->
                       IF x = w THEN "passed"
                       ELSE IF wpc[x] = "waiting" THEN "woken" ELSE wpc[x]]
  /\ UNCHANGED <<harnessVars, inputs, mainVars, held, localHeaps, chunks, pipeVars,
                 wsVars, wg, hist>>

\* a woken waiter returns from cond.Wait and unlocks (barrier.go:31,37)
BSPWake(w) ==
  /\ mode = "bsp" /\ w \in DOMAIN wpc /\ wpc[w] = "woken"
  /\ pc # "panic"
  /\ wpc' = [wpc EXCEPT ![w] = "passed"]
  /\ UNCHANGED <<harnessVars, inputs, mainVars, held, bspVars, pipeVars, wsVars, wg, hist>>

\* defer wg.Done() (barrier.go:117)
BSPWorkerDone(w) ==
  /\ mode = "bsp" /\ w \in DOMAIN wpc /\ wpc[w] = "passed"
  /\ pc # "panic"
  /\ wpc' = [wpc EXCEPT ![w] = "done"]
  /\ wg' = wg - 1
  /\ UNCHANGED <<harnessVars, inputs, mainVars, held, bspVars, pipeVars, wsVars, hist>>

\* mutant: the main goroutine reduces without wg.Wait()
BSPReduceNoWait ==
  /\ mode = "bsp" /\ pc = "launch" /\ i = numWorkers
  /\ h' = BspReduceAll(<<>>, localHeaps, topK)
  /\ localHeaps' = [x \in DOMAIN localHeaps |-> <<>>]
  /\ created' = created \cup {"finalHeap"}
  /\ pc' = "drain"
  /\ UNCHANGED <<harnessVars, inputs, result, numWorkers, i, started, workerVars,
                 chunks, count, pipeVars, wsVars, wg, hist>>

\* wg.Wait() returns and the main goroutine reduces (barrier.go:149-182)
BSPReduce ==
  /\ mode = "bsp" /\ pc = "launch" /\ i = numWorkers /\ wg = 0
  /\ h' = BspReduceAll(<<>>, localHeaps, topK)
  /\ localHeaps' = [x \in DOMAIN localHeaps |-> <<>>]
  /\ created' = created \cup {"finalHeap"}
  /\ pc' = "drain"
  /\ UNCHANGED <<harnessVars, inputs, result, numWorkers, i, started, workerVars,
                 chunks, count, pipeVars, wsVars, wg, hist>>

\* extraction, sort and return (barrier.go:184-208)
BSPDrain ==
  /\ mode = "bsp" /\ pc = "drain"
  /\ result' = BspDrain(h)
  /\ h' = <<>>
  /\ pc' = "done"
  /\ UNCHANGED <<harnessVars, inputs, numWorkers, i, started, created, workerVars,
                 bspVars, pipeVars, wsVars, wg, hist>>

NextBSP ==
  \/ BSPCall \/ BSPLaunch \/ BSPReduce \/ BSPDrain
  \/ \E w \in DOMAIN wpc :
       BSPScore(w) \/ BSPBarrierWait(w) \/ BSPWake(w) \/ BSPWorkerDone(w)

InitBSP == InitState /\ InitArgs("bsp", BoundedSeq(PhotoPool, MaxPhotos) \cup
                              BoundedSeq(PhotoPoolBSP, MaxPhotosBSP),
                       -1..MaxWorkersBSP)

SpecBSP == InitBSP /\ [][NextBSP]_vars

(* ---------------- pipeline: pipeline.RankScoringPipeline -------------- *)
\* mutant: the replacement test without its tie-breaks
pipelineShouldReplaceScoreOnly(sp, root) == sp.score > root.score

\* pipeline_test.go:196-207
pipelineShouldReplace(sp, root) ==
  IF sp.score > root.score THEN TRUE
  ELSE IF sp.score = root.score
       THEN IF sp.photo.StatsDownloads > root.photo.StatsDownloads THEN TRUE
            ELSE IF sp.photo.StatsDownloads = root.photo.StatsDownloads
                 THEN StrLess(sp.photo.PhotoID, root.photo.PhotoID)
                 ELSE FALSE
  ELSE FALSE

\* the body of collectResults' receive loop (pipeline_test.go:192-212)
CollectOffer(hp, sp, kk) ==
  IF Len(hp) < kk THEN HeapPush("pipeline", hp, sp)
  ELSE IF Len(hp) > 0
       THEN IF pipelineShouldReplace(sp, hp[1])
            THEN HeapPush("pipeline", HeapPopRest("pipeline", hp), sp)
            ELSE hp
  ELSE hp

\* collectResults' extraction and sort (pipeline_test.go:215-237)
CollectDrain(hp) ==
  PhotosOf(SortSlice("pipeline", Reverse(PopAll("pipeline", hp))))

\* the clamp of RankScoringPipeline (pipeline_test.go:262-267)
PipelineClamp(req, n) ==
  LET w1 == IF req <= 0 THEN NumCPU ELSE req
  IN IF w1 > n THEN n ELSE w1

\* mutant: the candidates channel is as small as the results channel
CandidatesCapTwicePerScorer == numWorkers * 2

\* cap(photosToScoreCh) and cap(resultsCh) (pipeline_test.go:271-272)
CandidatesCap == Len(photos)
ResultsCap == numWorkers * 2

\* RankScoringPipeline's guard (pipeline_test.go:259)
PipelineGuard(kk, ps) == kk <= 0 \/ Len(ps) = 0

\* guard, clamp, channels, collector goroutine (pipeline_test.go:259-282)
PipeCall ==
  /\ mode = "pipeline" /\ pc = "call"
  /\ IF PipelineGuard(topK, photos)
     THEN /\ pc' = "done" /\ result' = <<>>
          /\ UNCHANGED <<numWorkers, created, started, wpc, held, cpc>>
     ELSE LET nw == PipelineClamp(reqWorkers, Len(photos))
          IN /\ pc' = "scorers"
             /\ numWorkers' = nw
             /\ created' = {"channel", "heap"}
             /\ started' = 1
             /\ cpc' = "recv"
             /\ wpc' = [x \in 0..(nw - 1) |-> "unborn"]
             /\ held' = [x \in 0..(nw - 1) |-> <<>>]
             /\ UNCHANGED result
  /\ UNCHANGED <<harnessVars, inputs, i, h, bspVars, photosToScoreCh, resultsCh, closedCh,
                 finalRanked, clpc, wsVars, wg, hist>>

\* mutant: a scorer is started without scorerWg.Add(1)
PipeStartScorerNoAdd ==
  /\ mode = "pipeline" /\ pc = "scorers" /\ i < numWorkers
  /\ wg' = wg
  /\ wpc' = [wpc EXCEPT ![i] = "recv"]
  /\ started' = started + 1
  /\ i' = i + 1
  /\ UNCHANGED <<harnessVars, inputs, pc, result, numWorkers, h, created, held, bspVars,
                 pipeVars, wsVars, hist>>

\* one iteration of runScorerWorkers' loop (pipeline_test.go:166-175)
PipeStartScorer ==
  /\ mode = "pipeline" /\ pc = "scorers" /\ i < numWorkers
  /\ wg' = wg + 1
  /\ wpc' = [wpc EXCEPT ![i] = "recv"]
  /\ started' = started + 1
  /\ i' = i + 1
  /\ UNCHANGED <<harnessVars, inputs, pc, result, numWorkers, h, created, held, bspVars,
                 pipeVars, wsVars, hist>>

\* go func() { scorerWg.Wait(); close(resultsCh) }() (pipeline_test.go:288)
PipeStartCloser ==
  /\ mode = "pipeline" /\ pc = "scorers" /\ i = numWorkers
  /\ clpc' = "wait"
  /\ started' = started + 1
  /\ pc' = "feed"
  /\ i' = 0
  /\ UNCHANGED <<harnessVars, inputs, result, numWorkers, h, created, workerVars, bspVars,
                 photosToScoreCh, resultsCh, closedCh, finalRanked, cpc,
                 wsVars, wg, hist>>

\* photosToScoreCh <- candidatePhotos[i] (pipeline_test.go:294-296)
PipeFeed ==
  /\ mode = "pipeline" /\ pc = "feed" /\ i < Len(photos)
  /\ Len(photosToScoreCh) < CandidatesCap
  /\ photosToScoreCh' = Append(photosToScoreCh, photos[i + 1])
  /\ i' = i + 1
  /\ UNCHANGED <<harnessVars, inputs, pc, result, numWorkers, h, started, created,
                 workerVars, bspVars, resultsCh, closedCh, finalRanked, cpc,
                 clpc, wsVars, wg, hist>>

\* close(photosToScoreCh) (pipeline_test.go:297)
PipeCloseCandidates ==
  /\ mode = "pipeline" /\ pc = "feed" /\ i = Len(photos)
  /\ closedCh' = closedCh \cup {"photosToScoreCh"}
  /\ pc' = "recvFinal"
  /\ UNCHANGED <<harnessVars, inputs, result, numWorkers, i, h, started, created,
                 workerVars, bspVars, photosToScoreCh, resultsCh, finalRanked,
                 cpc, clpc, wsVars, wg, hist>>

\* mutant: a scorer reads the head of the channel and leaves it there
PipeScorerRecvPeek(w) ==
  /\ mode = "pipeline" /\ w \in DOMAIN wpc /\ wpc[w] = "recv"
  /\ pc # "panic"
  /\ IF photosToScoreCh # <<>>
     THEN /\ held' = [held EXCEPT ![w] = <<Head(photosToScoreCh)>>]
          /\ photosToScoreCh' =
               IF w = 0 THEN photosToScoreCh ELSE Tail(photosToScoreCh)
          /\ wpc' = [wpc EXCEPT ![w] = "send"]
          /\ UNCHANGED wg
     ELSE /\ "photosToScoreCh" \in closedCh
          /\ wpc' = [wpc EXCEPT ![w] = "done"]
          /\ wg' = wg - 1
          /\ UNCHANGED <<held, photosToScoreCh>>
  /\ UNCHANGED <<harnessVars, inputs, mainVars, bspVars, resultsCh, closedCh, finalRanked,
                 cpc, clpc, wsVars, hist>>

\* for photo := range candidatesCh: receive, or leave the loop and
\* run the deferred scorerWg.Done() (pipeline_test.go:169-170)
PipeScorerRecv(w) ==
  /\ mode = "pipeline" /\ w \in DOMAIN wpc /\ wpc[w] = "recv"
  /\ pc # "panic"
  /\ IF photosToScoreCh # <<>>
     THEN /\ held' = [held EXCEPT ![w] = <<Head(photosToScoreCh)>>]
          /\ photosToScoreCh' = Tail(photosToScoreCh)
          /\ wpc' = [wpc EXCEPT ![w] = "send"]
          /\ UNCHANGED wg
     ELSE /\ "photosToScoreCh" \in closedCh
          /\ wpc' = [wpc EXCEPT ![w] = "done"]
          /\ wg' = wg - 1
          /\ UNCHANGED <<held, photosToScoreCh>>
  /\ UNCHANGED <<harnessVars, inputs, mainVars, bspVars, resultsCh, closedCh, finalRanked,
                 cpc, clpc, wsVars, hist>>

\* score and resultsCh <- scoredPhoto{...} (pipeline_test.go:171-172);
\* a send on a closed channel panics
PipeScorerSend(w) ==
  /\ mode = "pipeline" /\ w \in DOMAIN wpc /\ wpc[w] = "send"
  /\ pc # "panic"
  /\ IF "resultsCh" \in closedCh
     THEN /\ pc' = "panic"
          /\ UNCHANGED <<resultsCh, held, wpc>>
     ELSE /\ Len(resultsCh) < ResultsCap
          /\ resultsCh' = Append(resultsCh,
               [photo |-> held[w][1], score |-> Score(query, held[w][1])])
          /\ held' = [held EXCEPT ![w] = <<>>]
          /\ wpc' = [wpc EXCEPT ![w] = "recv"]
          /\ UNCHANGED pc
  /\ UNCHANGED <<harnessVars, inputs, result, numWorkers, i, h, started, created, bspVars,
                 photosToScoreCh, closedCh, finalRanked, cpc, clpc, wsVars,
                 wg, hist>>

\* mutant: the closer goroutine returns without close(resultsCh)
PipeCloserNoClose ==
  /\ mode = "pipeline" /\ clpc = "wait" /\ wg = 0
  /\ pc # "panic"
  /\ clpc' = "done"
  /\ UNCHANGED <<harnessVars, inputs, mainVars, workerVars, bspVars, photosToScoreCh,
                 resultsCh, closedCh, finalRanked, cpc, wsVars, wg, hist>>

\* scorerWg.Wait() returns; close(resultsCh) (pipeline_test.go:289-290)
PipeCloser ==
  /\ mode = "pipeline" /\ clpc = "wait" /\ wg = 0
  /\ pc # "panic"
  /\ closedCh' = closedCh \cup {"resultsCh"}
  /\ clpc' = "done"
  /\ UNCHANGED <<harnessVars, inputs, mainVars, workerVars, bspVars, photosToScoreCh,
                 resultsCh, finalRanked, cpc, wsVars, wg, hist>>

\* for sp := range resultsCh: one offer, or the extraction once the
\* channel is closed and empty (pipeline_test.go:191-237)
PipeCollect ==
  /\ mode = "pipeline" /\ cpc = "recv"
  /\ pc # "panic"
  /\ IF resultsCh # <<>>
     THEN /\ h' = CollectOffer(h, Head(resultsCh), topK)
          /\ resultsCh' = Tail(resultsCh)
          /\ hist' = [hist EXCEPT !.collected = Tally(@, Head(resultsCh))]
          /\ UNCHANGED <<finalRanked, cpc>>
     ELSE /\ "resultsCh" \in closedCh
          /\ finalRanked' = CollectDrain(h)
          /\ h' = <<>>
          /\ cpc' = "sendFinal"
          /\ UNCHANGED <<resultsCh, hist>>
  /\ UNCHANGED <<harnessVars, inputs, pc, result, numWorkers, i, started, created,
                 workerVars, bspVars, photosToScoreCh, closedCh, clpc,
                 wsVars, wg>>

\* the rendezvous on finalRankedPhotosCh (pipeline_test.go:280-281, 300)
PipeReturn ==
  /\ mode = "pipeline" /\ cpc = "sendFinal" /\ pc = "recvFinal"
  /\ result' = finalRanked
  /\ cpc' = "done"
  /\ pc' = "done"
  /\ UNCHANGED <<harnessVars, inputs, numWorkers, i, h, started, created, workerVars,
                 bspVars, photosToScoreCh, resultsCh, closedCh, finalRanked,
                 clpc, wsVars, wg, hist>>

\* the steps of the calling goroutine and of scorer w
PipeMain ==
  \/ PipeCall \/ PipeStartScorer \/ PipeStartCloser \/ PipeFeed
  \/ PipeCloseCandidates \/ PipeReturn

PipeScorer(w) == PipeScorerRecv(w) \/ PipeScorerSend(w)

NextPipeline ==
  \/ PipeCall \/ PipeStartScorer \/ PipeStartCloser \/ PipeFeed
  \/ PipeCloseCandidates \/ PipeCloser \/ PipeCollect \/ PipeReturn
  \/ \E w \in DOMAIN wpc : PipeScorerRecv(w) \/ PipeScorerSend(w)

InitPipeline == InitState /\ InitArgs("pipeline", BoundedSeq(PhotoPool, MaxPhotos), 0..MaxWorkers)

SpecPipeline == InitPipeline /\ [][NextPipeline]_vars

(* ------------------------ work stealing: ws.RankWS -------------------- *)
\* mutant: the replacement test without its tie-breaks
wsShouldReplaceScoreOnly(sp, root) == sp.score > root.score

\* mutant: on equal score and downloads the root is replaced whatever
\* the ids are
wsShouldReplaceTieAlways(sp, root) ==
  IF sp.score > root.score THEN TRUE
  ELSE IF sp.score = root.score
       THEN sp.photo.StatsDownloads >= root.photo.StatsDownloads
  ELSE FALSE

\* collector.go:70-81
wsShouldReplace(sp, root) ==
  IF sp.score > root.score THEN TRUE
  ELSE IF sp.score = root.score
       THEN IF sp.photo.StatsDownloads > root.photo.StatsDownloads THEN TRUE
            ELSE IF sp.photo.StatsDownloads = root.photo.StatsDownloads
                 THEN StrLess(sp.photo.PhotoID, root.photo.PhotoID)
                 ELSE FALSE
  ELSE FALSE

\* mutant: Push drops the photos that score 0
CollectorPushSkipZero(hp, sp, kk) ==
  IF kk <= 0 \/ sp.score = 0 THEN hp
  ELSE IF Len(hp) < kk THEN HeapPush("ws", hp, sp)
  ELSE IF Len(hp) > 0
       THEN IF wsShouldReplace(sp, hp[1])
            THEN HeapPush("ws", HeapPopRest("ws", hp), sp)
            ELSE hp
  ELSE hp

\* Collector.Push (collector.go:57-87): the heap after the call
CollectorPush(hp, sp, kk) ==
  IF kk <= 0 THEN hp
  ELSE IF Len(hp) < kk THEN HeapPush("ws", hp, sp)
  ELSE IF Len(hp) > 0
       THEN IF wsShouldReplace(sp, hp[1])
            THEN HeapPush("ws", HeapPopRest("ws", hp), sp)
            ELSE hp
  ELSE hp

\* Collector.GetRankedPhotos (collector.go:90-120)
GetRankedPhotos(hp) ==
  IF Len(hp) = 0 THEN <<>>
  ELSE PhotosOf(SortSlice("ws", Reverse(PopAll("ws", hp))))

\* the clamp of RankWS (ws.go:19-24)
WsClamp(req, n) ==
  LET w1 == IF req <= 0 THEN NumCPU ELSE req
  IN IF w1 > n THEN n ELSE w1

\* Deque.PushBottom / PopBottom / PopTop on d.tasks
PushBottom(tasks, task) == Append(tasks, task)
PopBottomTask(tasks) == tasks[Len(tasks)]
\* mutant: PopBottom returns the bottom task and removes the top one
PopBottomRestTop(tasks) == SubSeq(tasks, 2, Len(tasks))
PopBottomRest(tasks) == SubSeq(tasks, 1, Len(tasks) - 1)
\* mutant: PopTop returns the bottom task and removes the top one
PopTopTaskBottom(tasks) == tasks[Len(tasks)]
PopTopTask(tasks) == tasks[1]
\* mutant: PopTop returns the top task and leaves it in the deque
PopTopRestKeep(tasks) == tasks
PopTopRest(tasks) == SubSeq(tasks, 2, Len(tasks))

\* mutant: a steal round may try every peer
StealLimitEveryPeer(nw) == nw - 1

\* numPeersToTry at the start of a steal round (ws.go:60-63)
StealLimit(nw) == IF nw - 1 > 3 THEN 3 ELSE nw - 1

\* mutant: the guard lets topK = 0 through
WsGuardNegativeOnly(kk, ps) == kk < 0 \/ Len(ps) = 0

\* RankWS's guard (ws.go:16)
WsGuard(kk, ps) == kk <= 0 \/ Len(ps) = 0

\* guard, clamp and deque allocation (ws.go:16-29)
WSCall ==
  /\ mode = "ws" /\ pc = "call"
  /\ IF WsGuard(topK, photos)
     THEN /\ pc' = "done" /\ result' = <<>>
          /\ UNCHANGED <<numWorkers, created, wpc, held, deques, tried, hist>>
     ELSE LET nw == WsClamp(reqWorkers, Len(photos))
          IN /\ pc' = "distribute"
             /\ numWorkers' = nw
             /\ created' = {"deque"}
             /\ deques' = [x \in 0..(nw - 1) |-> <<>>]
             /\ wpc' = [x \in 0..(nw - 1) |-> "unborn"]
             /\ held' = [x \in 0..(nw - 1) |-> <<>>]
             /\ tried' = [x \in 0..(nw - 1) |-> {}]
             /\ hist' = [hist EXCEPT
                           !.taken = [x \in 0..(Len(photos) - 1) |-> 0],
                           !.pushed = [x \in 0..(Len(photos) - 1) |-> 0]]
             /\ UNCHANGED result
  /\ UNCHANGED <<harnessVars, inputs, i, h, started, bspVars, pipeVars, tasksWg,
                 quitSignal, wg>>

\* mutant: the distribution deals the tasks out in blocks of two
WSDistributeBlocks ==
  /\ mode = "ws" /\ pc = "distribute" /\ i < Len(photos)
  /\ deques' = [deques EXCEPT ![(i \div 2) % numWorkers] =
        PushBottom(@, [Photo |-> photos[i + 1], Query |-> query, idx |-> i])]
  /\ tasksWg' = tasksWg + 1
  /\ i' = i + 1
  /\ UNCHANGED <<harnessVars, inputs, pc, result, numWorkers, h, started, created,
                 workerVars, bspVars, pipeVars, quitSignal, tried, wg, hist>>

\* one iteration of the distribution loop (ws.go:33-37)
WSDistribute ==
  /\ mode = "ws" /\ pc = "distribute" /\ i < Len(photos)
  /\ deques' = [deques EXCEPT ![i % numWorkers] =
        PushBottom(@, [Photo |-> photos[i + 1], Query |-> query, idx |-> i])]
  /\ tasksWg' = tasksWg + 1
  /\ i' = i + 1
  /\ UNCHANGED <<harnessVars, inputs, pc, result, numWorkers, h, started, created,
                 workerVars, bspVars, pipeVars, quitSignal, tried, wg, hist>>

\* NewCollector(topK) and make(chan struct{}) (ws.go:39-41)
WSNewCollector ==
  /\ mode = "ws" /\ pc = "distribute" /\ i = Len(photos)
  /\ h' = <<>>
  /\ created' = created \cup {"heap", "channel"}
  /\ pc' = "launch"
  /\ i' = 0
  /\ UNCHANGED <<harnessVars, inputs, result, numWorkers, started, workerVars, bspVars,
                 pipeVars, wsVars, wg, hist>>

\* one iteration of the launch loop (ws.go:43-45, 100)
WSLaunch ==
  /\ mode = "ws" /\ pc = "launch" /\ i < numWorkers
  /\ wg' = wg + 1
  /\ wpc' = [wpc EXCEPT ![i] = "pop"]
  /\ started' = started + 1
  /\ i' = i + 1
  /\ UNCHANGED <<harnessVars, inputs, pc, result, numWorkers, h, created, held, bspVars,
                 pipeVars, wsVars, hist>>

\* task, found = localDeque.PopBottom() (ws.go:54-56)
WSPopBottom(w) ==
  /\ mode = "ws" /\ w \in DOMAIN wpc /\ wpc[w] = "pop"
  /\ IF deques[w] # <<>>
     THEN /\ held' = [held EXCEPT ![w] = <<PopBottomTask(deques[w])>>]
          /\ deques' = [deques EXCEPT ![w] = PopBottomRest(@)]
          /\ hist' = [hist EXCEPT !.taken[PopBottomTask(deques[w]).idx] = @ + 1]
          /\ wpc' = [wpc EXCEPT ![w] = "push"]
          /\ UNCHANGED tried
     ELSE /\ wpc' = [wpc EXCEPT ![w] = IF numWorkers > 1 THEN "steal" ELSE "idle"]
          /\ tried' = [tried EXCEPT ![w] = {}]
          /\ UNCHANGED <<held, deques, hist>>
  /\ UNCHANGED <<harnessVars, inputs, mainVars, bspVars, pipeVars, tasksWg, quitSignal, wg>>

\* one steal attempt: the next peer of the random permutation that is
\* not the worker itself (ws.go:66-80)
WSSteal(w) ==
  /\ mode = "ws" /\ w \in DOMAIN wpc /\ wpc[w] = "steal"
  /\ \E peerIdx \in (DOMAIN wpc) \ ({w} \cup tried[w]) :
       IF deques[peerIdx] # <<>>
       THEN /\ held' = [held EXCEPT ![w] = <<PopTopTask(deques[peerIdx])>>]
            /\ deques' = [deques EXCEPT ![peerIdx] = PopTopRest(@)]
            /\ hist' = [hist EXCEPT
                          !.taken[PopTopTask(deques[peerIdx]).idx] = @ + 1,
                          !.stolen = @ + 1]
            /\ wpc' = [wpc EXCEPT ![w] = "push"]
            /\ UNCHANGED tried
       ELSE /\ tried' = [tried EXCEPT ![w] = @ \cup {peerIdx}]
            /\ wpc' = [wpc EXCEPT ![w] =
                 IF Cardinality(tried[w]) + 1 >= StealLimit(numWorkers)
                 THEN "idle" ELSE "steal"]
            /\ UNCHANGED <<held, deques, hist>>
  /\ UNCHANGED <<harnessVars, inputs, mainVars, bspVars, pipeVars, tasksWg, quitSignal, wg>>

\* score the task and collector.Push(sPhoto) (ws.go:85-86)
WSPush(w) ==
  /\ mode = "ws" /\ w \in DOMAIN wpc /\ wpc[w] = "push"
  /\ LET task == held[w][1]
     IN /\ h' = CollectorPush(h, [photo |-> task.Photo,
                                   score |-> Score(task.Query, task.Photo)], topK)
        /\ hist' = [hist EXCEPT !.pushed[task.idx] = @ + 1]
  /\ wpc' = [wpc EXCEPT ![w] = "taskDone"]
  /\ UNCHANGED <<harnessVars, inputs, pc, result, numWorkers, i, started, created, held,
                 bspVars, pipeVars, wsVars, wg>>

\* tasksWg.Done() (ws.go:87)
WSTaskDone(w) ==
  /\ mode = "ws" /\ w \in DOMAIN wpc /\ wpc[w] = "taskDone"
  /\ tasksWg' = tasksWg - 1
  /\ hist' = [hist EXCEPT !.decs = @ + 1,
                          !.zeros = IF tasksWg = 1 THEN @ + 1 ELSE @]
  /\ held' = [held EXCEPT ![w] = <<>>]
  /\ wpc' = [wpc EXCEPT ![w] = "pop"]
  /\ UNCHANGED <<harnessVars, inputs, mainVars, bspVars, pipeVars, deques, quitSignal,
                 tried, wg>>

\* mutant: an idle worker never looks at quitSignal
WSIdleNoQuit(w) ==
  /\ mode = "ws" /\ w \in DOMAIN wpc /\ wpc[w] = "idle"
  /\ wpc' = [wpc EXCEPT ![w] = "pop"]
  /\ UNCHANGED <<harnessVars, inputs, mainVars, held, bspVars, pipeVars, wsVars, wg, hist>>

\* select { case <-quitSignal: return; default: runtime.Gosched() }
\* with the deferred workerPoolWg.Done() (ws.go:46, 90-97)
WSIdle(w) ==
  /\ mode = "ws" /\ w \in DOMAIN wpc /\ wpc[w] = "idle"
  /\ IF quitSignal
     THEN /\ wpc' = [wpc EXCEPT ![w] = "done"]
          /\ wg' = wg - 1
     ELSE /\ wpc' = [wpc EXCEPT ![w] = "pop"]
          /\ UNCHANGED wg
  /\ UNCHANGED <<harnessVars, inputs, mainVars, held, bspVars, pipeVars, wsVars, hist>>

\* mutant: close(quitSignal) without tasksWg.Wait()
WSCloseQuitNoWait ==
  /\ mode = "ws" /\ pc = "launch" /\ i = numWorkers
  /\ quitSignal' = TRUE
  /\ pc' = "waitPool"
  /\ UNCHANGED <<harnessVars, inputs, result, numWorkers, i, h, started, created,
                 workerVars, bspVars, pipeVars, deques, tasksWg, tried, wg,
                 hist>>

\* tasksWg.Wait() returns; close(quitSignal) (ws.go:103-104)
WSCloseQuit ==
  /\ mode = "ws" /\ pc = "launch" /\ i = numWorkers
  /\ tasksWg = 0
  /\ quitSignal' = TRUE
  /\ pc' = "waitPool"
  /\ UNCHANGED <<harnessVars, inputs, result, numWorkers, i, h, started, created,
                 workerVars, bspVars, pipeVars, deques, tasksWg, tried, wg,
                 hist>>

\* workerPoolWg.Wait() returns; collector.GetRankedPhotos() (ws.go:105-109)
WSReturn ==
  /\ mode = "ws" /\ pc = "waitPool" /\ wg = 0
  /\ result' = GetRankedPhotos(h)
  /\ h' = <<>>
  /\ pc' = "done"
  /\ UNCHANGED <<harnessVars, inputs, numWorkers, i, started, created, workerVars,
                 bspVars, pipeVars, wsVars, wg, hist>>

WSWorker(w) ==
  WSPopBottom(w) \/ WSSteal(w) \/ WSPush(w) \/ WSTaskDone(w) \/ WSIdle(w)

WSMain ==
  WSCall \/ WSDistribute \/ WSNewCollector \/ WSLaunch \/ WSCloseQuit \/ WSReturn

NextWS == WSMain \/ \E w \in DOMAIN wpc : WSWorker(w)

InitWS == InitState /\ InitArgs("ws", BoundedSeq(PhotoPool, MaxPhotos), 0..MaxWorkers)

SpecWS == InitWS /\ [][NextWS]_vars

\* RankWS with up to MaxStealWorkers workers, of which the scheduler has
\* so far let only the first MaxRunning run: the others are started and
\* their deques can be stolen from
NextWSSteal ==
  \/ WSCall \/ WSDistribute \/ WSNewCollector \/ WSLaunch \/ WSCloseQuit
  \/ \E w \in DOMAIN wpc : w < MaxRunning /\ WSWorker(w)

InitWSSteal ==
  /\ InitState
  /\ InitArgs("ws", {[x \in 1..n |-> Photo(<<65>>, <<"foo">>, <<>>, 5)] :
                       n \in 0..MaxStealWorkers},
              1..MaxStealWorkers)

SpecWSSteal == InitWSSteal /\ [][NextWSSteal]_vars

(* ------------------------- the four rankers --------------------------- *)
Init == InitSeq \/ InitBSP \/ InitPipeline \/ InitWS

Next == NextSeq \/ NextBSP \/ NextPipeline \/ NextWS

Spec == Init /\ [][Next]_vars

(* ------------- the Barrier alone: bsp.TestBarrierReuse ---------------- *)
\* the variables the barrier test leaves alone
barRest == <<inputs, mainVars, workerVars, localHeaps, chunks, pipeVars,
             wsVars, wg, hist, mu, dequeVars, collVars, scores, callVars>>

\* mutant: the barrier opens one arrival early
BarWaitEnterEarly(g) ==
  /\ mode = "barrier" /\ g \in DOMAIN gpc /\ gpc[g] = "call"
  /\ waitCalls' = [waitCalls EXCEPT ![g] = @ + 1]
  /\ IF count + 1 < numGoroutines - 1
     THEN /\ count' = count + 1
          /\ gpc' = [gpc EXCEPT ![g] = "waiting"]
          /\ UNCHANGED waitReturns
     ELSE /\ gpc' = [x \in DOMAIN gpc |->
                      IF x = g THEN "returned"
                      ELSE IF gpc[x] = "waiting" THEN "woken" ELSE gpc[x]]
          /\ count' = 0
          /\ waitReturns' = [waitReturns EXCEPT ![g] = @ + 1]
  /\ UNCHANGED <<barRest, numGoroutines, numCycles, cycle, counters>>

\* mutant: the last arrival broadcasts and leaves the count as it is
BarWaitEnterNoReset(g) ==
  /\ mode = "barrier" /\ g \in DOMAIN gpc /\ gpc[g] = "call"
  /\ waitCalls' = [waitCalls EXCEPT ![g] = @ + 1]
  /\ count' = count + 1
  /\ IF count + 1 < numGoroutines
     THEN /\ gpc' = [gpc EXCEPT ![g] = "waiting"]
          /\ UNCHANGED waitReturns
     ELSE /\ gpc' = [x \in DOMAIN gpc |->
                      IF x = g THEN "returned"
                      ELSE IF gpc[x] = "waiting" THEN "woken" ELSE gpc[x]]
          /\ waitReturns' = [waitReturns EXCEPT ![g] = @ + 1]
  /\ UNCHANGED <<barRest, numGoroutines, numCycles, cycle, counters>>

\* mutant: the last arrival wakes one waiter (Signal), not all of them
BarWaitEnterSignal(g) ==
  /\ mode = "barrier" /\ g \in DOMAIN gpc /\ gpc[g] = "call"
  /\ waitCalls' = [waitCalls EXCEPT ![g] = @ + 1]
  /\ IF count + 1 < numGoroutines
     THEN /\ count' = count + 1
          /\ gpc' = [gpc EXCEPT ![g] = "waiting"]
          /\ UNCHANGED waitReturns
     ELSE /\ \/ /\ \A x \in DOMAIN gpc : gpc[x] # "waiting"
                /\ gpc' = [gpc EXCEPT ![g] = "returned"]
             \/ \E y \in DOMAIN gpc :
                  /\ gpc[y] = "waiting"
                  /\ gpc' = [gpc EXCEPT ![g] = "returned", ![y] = "woken"]
          /\ count' = 0
          /\ waitReturns' = [waitReturns EXCEPT ![g] = @ + 1]
  /\ UNCHANGED <<barRest, numGoroutines, numCycles, cycle, counters>>

\* Barrier.Wait from Lock to cond.Wait or to Unlock (barrier.go:27-38):
\* count++, then either wait on the condition (which releases the mutex)
\* or Broadcast, count = 0, Unlock, return. Broadcast wakes exactly the
\* goroutines waiting at that moment; Go's Cond has no spurious wake-ups.
BarWaitEnter(g) ==
  /\ mode = "barrier" /\ g \in DOMAIN gpc /\ gpc[g] = "call"
  /\ waitCalls' = [waitCalls EXCEPT ![g] = @ + 1]
  /\ IF count + 1 < numGoroutines
     THEN /\ count' = count + 1
          /\ gpc' = [gpc EXCEPT ![g] = "waiting"]
          /\ UNCHANGED waitReturns
     ELSE /\ gpc' = [x \in DOMAIN gpc |->
                      IF x = g THEN "returned"
                      ELSE IF gpc[x] = "waiting" THEN "woken" ELSE gpc[x]]
          /\ count' = 0
          /\ waitReturns' = [waitReturns EXCEPT ![g] = @ + 1]
  /\ UNCHANGED <<barRest, numGoroutines, numCycles, cycle, counters>>

\* a woken goroutine re-acquires the mutex inside cond.Wait, unlocks and
\* returns from Wait (barrier.go:31, 37)
BarWaitResume(g) ==
  /\ mode = "barrier" /\ g \in DOMAIN gpc /\ gpc[g] = "woken"
  /\ gpc' = [gpc EXCEPT ![g] = "returned"]
  /\ waitReturns' = [waitReturns EXCEPT ![g] = @ + 1]
  /\ UNCHANGED <<barRest, count, numGoroutines, numCycles, cycle, counters,
                 waitCalls>>

\* counters[cycle].Add(1) and the loop's next iteration or its end
\* (barrier_test.go:115, 122)
BarPass(g) ==
  /\ mode = "barrier" /\ g \in DOMAIN gpc /\ gpc[g] = "returned"
  /\ counters' = [counters EXCEPT ![cycle[g]] = @ + 1]
  /\ cycle' = [cycle EXCEPT ![g] = @ + 1]
  /\ gpc' = [gpc EXCEPT ![g] =
               IF cycle[g] + 1 < numCycles THEN "call" ELSE "done"]
  /\ UNCHANGED <<barRest, count, numGoroutines, numCycles, waitCalls,
                 waitReturns>>

\* the steps of test goroutine g (barrier_test.go:113-124)
BarGoroutine(g) == BarWaitEnter(g) \/ BarWaitResume(g) \/ BarPass(g)

NextBarrier == \E g \in DOMAIN gpc : BarGoroutine(g)

\* New(numGoroutines) and the test's goroutines, each about to make its
\* first call (barrier_test.go:103-113)
InitBarrier ==
  /\ InitRanker
  /\ mode = "barrier" /\ query = <<>> /\ photos = <<>> /\ topK = 0
  /\ reqWorkers = 0
  /\ numGoroutines \in 1..MaxGoroutines
  /\ numCycles \in 1..MaxCycles
  /\ gpc = [g \in 0..(numGoroutines - 1) |-> "call"]
  /\ cycle = [g \in 0..(numGoroutines - 1) |-> 0]
  /\ counters = [c \in 0..(numCycles - 1) |-> 0]
  /\ waitCalls = [g \in 0..(numGoroutines - 1) |-> 0]
  /\ waitReturns = [g \in 0..(numGoroutines - 1) |-> 0]
  /\ mu = -1 /\ InitDequeIdle /\ InitCollectorIdle /\ scores = <<>>
  /\ InitCallsIdle

SpecBarrier == InitBarrier /\ [][NextBarrier]_vars

\* the same under the scheduling Go provides
FairSpecBarrier ==
  /\ SpecBarrier
  /\ \A g \in 0..(MaxGoroutines - 1) : WF_vars(BarGoroutine(g))

(* --------------- the Barrier alone: New and its callers --------------- *)
\* mutant: a New that panics for negative sizes only
BarNewAcceptsZero ==
  /\ mode = "barrier" /\ pc = "call"
  /\ IF reqWorkers < 0
     THEN /\ pc' = "panic"
          /\ UNCHANGED <<count, numGoroutines, gpc, cycle, waitCalls,
                         waitReturns>>
     ELSE /\ pc' = "run"
          /\ numGoroutines' = reqWorkers
          /\ count' = 0
          /\ \E callers \in 1..MaxGoroutines :
               /\ gpc' = [g \in 0..(callers - 1) |-> "call"]
               /\ cycle' = [g \in 0..(callers - 1) |-> 0]
               /\ waitCalls' = [g \in 0..(callers - 1) |-> 0]
               /\ waitReturns' = [g \in 0..(callers - 1) |-> 0]
  /\ UNCHANGED <<inputs, result, numWorkers, i, h, started, created,
                 workerVars, localHeaps, chunks, pipeVars, wsVars, wg, hist,
                 mu, numCycles, counters, dequeVars, collVars, scores,
                 callVars>>

\* New(reqWorkers) (barrier.go:15-22): a panic and no barrier for a size
\* that is not positive, else a barrier of that size with count 0; then the
\* test starts goroutines that call Wait on it, each numCycles times
BarNew ==
  /\ mode = "barrier" /\ pc = "call"
  /\ IF reqWorkers <= 0
     THEN /\ pc' = "panic"
          /\ UNCHANGED <<count, numGoroutines, gpc, cycle, waitCalls,
                         waitReturns>>
     ELSE /\ pc' = "run"
          /\ numGoroutines' = reqWorkers
          /\ count' = 0
          /\ \E callers \in 1..MaxGoroutines :
               /\ gpc' = [g \in 0..(callers - 1) |-> "call"]
               /\ cycle' = [g \in 0..(callers - 1) |-> 0]
               /\ waitCalls' = [g \in 0..(callers - 1) |-> 0]
               /\ waitReturns' = [g \in 0..(callers - 1) |-> 0]
  /\ UNCHANGED <<inputs, result, numWorkers, i, h, started, created,
                 workerVars, localHeaps, chunks, pipeVars, wsVars, wg, hist,
                 mu, numCycles, counters, dequeVars, collVars, scores,
                 callVars>>

NextBarrierNew == BarNew \/ \E g \in DOMAIN gpc : BarGoroutine(g)

\* a test about to call New with a size from -MaxNonPositive to
\* MaxGoroutines
InitBarrierNew ==
  /\ InitRanker
  /\ mode = "barrier" /\ query = <<>> /\ photos = <<>> /\ topK = 0
  /\ reqWorkers \in (0 - MaxNonPositive)..MaxGoroutines
  /\ numGoroutines = 0
  /\ numCycles \in 1..MaxCycles
  /\ gpc = <<>> /\ cycle = <<>> /\ waitCalls = <<>> /\ waitReturns = <<>>
  /\ counters = [c \in 0..(numCycles - 1) |-> 0]
  /\ mu = -1 /\ InitDequeIdle /\ InitCollectorIdle /\ scores = <<>>
  /\ InitCallsIdle

SpecBarrierNew == InitBarrierNew /\ [][NextBarrierNew]_vars

(* ------------ the Deque alone: concurrent PopBottom / PopTop ---------- *)
\* the variables the deque's pops leave alone
dequeRest == <<inputs, mainVars, workerVars, bspVars, pipeVars, wsVars, wg,
               hist, barVars, collVars, scores, callVars>>

\* mutant: a Lock that does not wait for the mutex to be free
DqLockNoExclusion(g) ==
  /\ mode = "deque" /\ g \in DOMAIN gpc /\ gpc[g] = "lock"
  /\ mu' = g
  /\ gpc' = [gpc EXCEPT ![g] = "check"]
  /\ UNCHANGED <<dequeRest, dequeVars>>

\* d.mu.Lock() (part_000:837, 850)
DqLock(g) ==
  /\ mode = "deque" /\ g \in DOMAIN gpc /\ gpc[g] = "lock"
  /\ mu = -1
  /\ mu' = g
  /\ gpc' = [gpc EXCEPT ![g] = "check"]
  /\ UNCHANGED <<dequeRest, dequeVars>>

\* if len(d.tasks) == 0 { return Task{}, false } (part_000:839-841, 852-854)
DqCheck(g) ==
  /\ mode = "deque" /\ g \in DOMAIN gpc /\ gpc[g] = "check"
  /\ IF Len(dTasks) = 0
     THEN /\ popTask' = [popTask EXCEPT ![g] = 0]
          /\ gpc' = [gpc EXCEPT ![g] = "unlock"]
     ELSE /\ gpc' = [gpc EXCEPT ![g] = "read"]
          /\ UNCHANGED popTask
  /\ UNCHANGED <<dequeRest, mu, dTasks, returned, numTasks>>

\* task := d.tasks[len(d.tasks)-1] for the owner (goroutine 0),
\* task := d.tasks[0] for a stealer (part_000:842, 855); an index out of
\* range panics
DqRead(g) ==
  /\ mode = "deque" /\ g \in DOMAIN gpc /\ gpc[g] = "read"
  /\ IF Len(dTasks) = 0
     THEN /\ gpc' = [gpc EXCEPT ![g] = "panic"]
          /\ UNCHANGED popTask
     ELSE /\ popTask' = [popTask EXCEPT ![g] =
                 IF g = 0 THEN PopBottomTask(dTasks) ELSE PopTopTask(dTasks)]
          /\ gpc' = [gpc EXCEPT ![g] = "shrink"]
  /\ UNCHANGED <<dequeRest, mu, dTasks, returned, numTasks>>

\* d.tasks = d.tasks[:len(d.tasks)-1] for the owner, d.tasks = d.tasks[1:]
\* for a stealer (part_000:843, 856); slicing an empty slice so panics
DqShrink(g) ==
  /\ mode = "deque" /\ g \in DOMAIN gpc /\ gpc[g] = "shrink"
  /\ IF Len(dTasks) = 0
     THEN /\ gpc' = [gpc EXCEPT ![g] = "panic"]
          /\ UNCHANGED dTasks
     ELSE /\ dTasks' = IF g = 0 THEN PopBottomRest(dTasks)
                                ELSE PopTopRest(dTasks)
          /\ gpc' = [gpc EXCEPT ![g] = "unlock"]
  /\ UNCHANGED <<dequeRest, mu, popTask, returned, numTasks>>

\* the deferred d.mu.Unlock() and the return (part_000:838, 844, 851,
\* 857); the caller pops again unless it was told the deque is empty
DqUnlock(g) ==
  /\ mode = "deque" /\ g \in DOMAIN gpc /\ gpc[g] = "unlock"
  /\ mu' = -1
  /\ returned' = [returned EXCEPT ![g] = Append(@, popTask[g])]
  /\ gpc' = [gpc EXCEPT ![g] = IF popTask[g] = 0 THEN "done" ELSE "lock"]
  /\ UNCHANGED <<dequeRest, dTasks, popTask, numTasks>>

\* the steps of one pop of goroutine g
DqPop(g) ==
  DqLock(g) \/ DqCheck(g) \/ DqRead(g) \/ DqShrink(g) \/ DqUnlock(g)

NextDeque == \E g \in DOMAIN gpc : DqPop(g)

\* a deque holding tasks 1..numTasks, pushed at the bottom in that order;
\* goroutine 0 is the owner, the others are stealers
InitDeque ==
  /\ InitRanker /\ InitBarrierIdle /\ InitCollectorIdle /\ InitCallsIdle
  /\ mode = "deque" /\ query = <<>> /\ photos = <<>> /\ topK = 0
  /\ reqWorkers = 0
  /\ numTasks \in 0..MaxTasks
  /\ dTasks = [x \in 1..numTasks |-> x]
  /\ mu = -1
  /\ \E ns \in 1..MaxStealers :
       /\ gpc = [g \in 0..ns |-> "lock"]
       /\ popTask = [g \in 0..ns |-> 0]
       /\ returned = [g \in 0..ns |-> <<>>]
  /\ scores = <<>>

SpecDeque == InitDeque /\ [][NextDeque]_vars

(* ------------- Deque: sequences of whole operations (part_000) -------- *)
\* each method runs under d.mu from its first statement to its return, so
\* a call is one step; gpc is the method called last, popTask what it
\* returned (0: Task{}, false), returned the results of all pops so far

\* PushBottom(task) with the next task, numbered by push (part_000:828-832)
OpPushBottom ==
  /\ mode = "dequeops" /\ numTasks < MaxTasks
  /\ dTasks' = PushBottom(dTasks, numTasks + 1)
  /\ numTasks' = numTasks + 1
  /\ gpc' = <<"PushBottom">>
  /\ UNCHANGED <<dequeRest, mu, popTask, returned>>

\* PopBottom() (part_000:836-845)
OpPopBottom ==
  /\ mode = "dequeops" /\ Len(returned) < MaxPops
  /\ IF Len(dTasks) = 0
     THEN popTask' = <<0>> /\ dTasks' = dTasks
     ELSE popTask' = <<PopBottomTask(dTasks)>>
          /\ dTasks' = PopBottomRest(dTasks)
  /\ returned' = Append(returned, popTask'[1])
  /\ gpc' = <<"PopBottom">>
  /\ UNCHANGED <<dequeRest, mu, numTasks>>

\* PopTop() (part_000:849-858)
OpPopTop ==
  /\ mode = "dequeops" /\ Len(returned) < MaxPops
  /\ IF Len(dTasks) = 0
     THEN popTask' = <<0>> /\ dTasks' = dTasks
     ELSE popTask' = <<PopTopTask(dTasks)>> /\ dTasks' = PopTopRest(dTasks)
  /\ returned' = Append(returned, popTask'[1])
  /\ gpc' = <<"PopTop">>
  /\ UNCHANGED <<dequeRest, mu, numTasks>>

NextDequeOps == OpPushBottom \/ OpPopBottom \/ OpPopTop

\* NewDeque() (part_000:822-824)
InitDequeOps ==
  /\ InitRanker /\ InitBarrierIdle /\ InitCollectorIdle /\ InitCallsIdle
  /\ mode = "dequeops" /\ query = <<>> /\ photos = <<>> /\ topK = 0
  /\ reqWorkers = 0 /\ mu = -1 /\ scores = <<>>
  /\ dTasks = <<>> /\ numTasks = 0
  /\ gpc = <<"NewDeque">> /\ popTask = <<0>> /\ returned = <<>>

SpecDequeOps == InitDequeOps /\ [][NextDequeOps]_vars

(* ------- the Collector alone: concurrent Push and GetRankedPhotos ----- *)
\* the variables the Collector's callers leave alone
collRest == <<inputs, pc, result, numWorkers, i, started, created,
              workerVars, bspVars, pipeVars, wsVars, wg, hist, barVars,
              dequeVars, scores, callVars>>

\* a pusher takes up one of the scored photos and calls Push with it, as
\* a WS worker does with each task it scored (ws.go:85-86), or returns
\* when none is left
CoCall(g) ==
  /\ mode = "collector" /\ g \in DOMAIN gpc /\ gpc[g] = "idle"
  /\ IF pending = {}
     THEN /\ gpc' = [gpc EXCEPT ![g] = "done"]
          /\ UNCHANGED <<pending, pushSp>>
     ELSE \E x \in pending :
            /\ pending' = pending \ {x}
            /\ pushSp' = [pushSp EXCEPT ![g] = x]
            /\ gpc' = [gpc EXCEPT ![g] = "lock"]
  /\ UNCHANGED <<collRest, h, mu, pushRoot, numResults, scoredResults, ranked,
                 order>>

\* mutant: a Lock that does not wait for the mutex to be free
CoLockNoExclusion(g) ==
  /\ mode = "collector" /\ g \in DOMAIN gpc /\ gpc[g] = "lock"
  /\ mu' = g
  /\ order' = Append(order, <<pushSp[g]>>)
  /\ gpc' = [gpc EXCEPT ![g] = "check"]
  /\ UNCHANGED <<collRest, h, pending, pushSp, pushRoot, numResults, scoredResults,
                 ranked>>

\* c.mu.Lock() of Push (collector.go:58)
CoLock(g) ==
  /\ mode = "collector" /\ g \in DOMAIN gpc /\ gpc[g] = "lock"
  /\ mu = -1
  /\ mu' = g
  /\ order' = Append(order, <<pushSp[g]>>)
  /\ gpc' = [gpc EXCEPT ![g] = "check"]
  /\ UNCHANGED <<collRest, h, pending, pushSp, pushRoot, numResults, scoredResults,
                 ranked>>

\* the tests of c.topK and of c.h.Len() (collector.go:61-67)
CoCheck(g) ==
  /\ mode = "collector" /\ g \in DOMAIN gpc /\ gpc[g] = "check"
  /\ gpc' = [gpc EXCEPT ![g] =
               IF topK <= 0 THEN "unlock"
               ELSE IF Len(h) < topK THEN "push"
               ELSE IF Len(h) > 0 THEN "root"
               ELSE "unlock"]
  /\ UNCHANGED <<collRest, h, mu, collVars>>

\* mutant: a full collector keeps what it holds and replaces nothing
CoRootKeepFirst(g) ==
  /\ mode = "collector" /\ g \in DOMAIN gpc /\ gpc[g] = "root"
  /\ IF Len(h) = 0
     THEN /\ gpc' = [gpc EXCEPT ![g] = "panic"]
          /\ UNCHANGED pushRoot
     ELSE /\ pushRoot' = [pushRoot EXCEPT ![g] = <<h[1]>>]
          /\ gpc' = [gpc EXCEPT ![g] = "unlock"]
  /\ UNCHANGED <<collRest, h, mu, pending, pushSp, numResults, scoredResults,
                 ranked, order>>

\* root := (*c.h)[0] and the replacement test (collector.go:68-82); an
\* index out of range panics
CoRoot(g) ==
  /\ mode = "collector" /\ g \in DOMAIN gpc /\ gpc[g] = "root"
  /\ IF Len(h) = 0
     THEN /\ gpc' = [gpc EXCEPT ![g] = "panic"]
          /\ UNCHANGED pushRoot
     ELSE /\ pushRoot' = [pushRoot EXCEPT ![g] = <<h[1]>>]
          /\ gpc' = [gpc EXCEPT ![g] =
                IF wsShouldReplace(pushSp[g], h[1]) THEN "pop" ELSE "unlock"]
  /\ UNCHANGED <<collRest, h, mu, pending, pushSp, numResults, scoredResults,
                 ranked, order>>

\* heap.Pop(c.h) (collector.go:83); Pop on an empty heap panics
CoPop(g) ==
  /\ mode = "collector" /\ g \in DOMAIN gpc /\ gpc[g] = "pop"
  /\ IF Len(h) = 0
     THEN /\ gpc' = [gpc EXCEPT ![g] = "panic"]
          /\ UNCHANGED h
     ELSE /\ h' = HeapPopRest("ws", h)
          /\ gpc' = [gpc EXCEPT ![g] = "push"]
  /\ UNCHANGED <<collRest, mu, collVars>>

\* heap.Push(c.h, sp) (collector.go:66, 84)
CoPush(g) ==
  /\ mode = "collector" /\ g \in DOMAIN gpc /\ gpc[g] = "push"
  /\ h' = HeapPush("ws", h, pushSp[g])
  /\ gpc' = [gpc EXCEPT ![g] = "unlock"]
  /\ UNCHANGED <<collRest, mu, collVars>>

\* the deferred c.mu.Unlock() of Push (collector.go:59)
CoUnlock(g) ==
  /\ mode = "collector" /\ g \in DOMAIN gpc /\ gpc[g] = "unlock"
  /\ mu' = -1
  /\ gpc' = [gpc EXCEPT ![g] = "idle"]
  /\ UNCHANGED <<collRest, h, collVars>>

\* c.mu.Lock() of GetRankedPhotos (collector.go:91)
GetLock(g) ==
  /\ mode = "collector" /\ g \in DOMAIN gpc /\ gpc[g] = "get"
  /\ mu = -1
  /\ mu' = g
  /\ order' = Append(order, <<>>)
  /\ gpc' = [gpc EXCEPT ![g] = "len"]
  /\ UNCHANGED <<collRest, h, pending, pushSp, pushRoot, numResults, scoredResults,
                 ranked>>

\* numResults := c.h.Len(); nil when it is 0 (collector.go:94-99)
GetLen(g) ==
  /\ mode = "collector" /\ g \in DOMAIN gpc /\ gpc[g] = "len"
  /\ numResults' = Len(h)
  /\ scoredResults' = <<>>
  /\ IF Len(h) = 0
     THEN /\ ranked' = <<>>
          /\ gpc' = [gpc EXCEPT ![g] = "getUnlock"]
     ELSE /\ gpc' = [gpc EXCEPT ![g] = "getPop"]
          /\ UNCHANGED ranked
  /\ UNCHANGED <<collRest, h, mu, pending, pushSp, pushRoot, order>>

\* scoredResults[i] = heap.Pop(c.h), i counting down (collector.go:100-102)
GetPop(g) ==
  /\ mode = "collector" /\ g \in DOMAIN gpc /\ gpc[g] = "getPop"
  /\ Len(scoredResults) < numResults
  /\ IF Len(h) = 0
     THEN /\ gpc' = [gpc EXCEPT ![g] = "panic"]
          /\ UNCHANGED <<h, scoredResults>>
     ELSE /\ scoredResults' = <<HeapPopTop(h)>> \o scoredResults
          /\ h' = HeapPopRest("ws", h)
          /\ UNCHANGED gpc
  /\ UNCHANGED <<collRest, mu, pending, pushSp, pushRoot, numResults, ranked, order>>

\* sort.Slice and the copy into out (collector.go:105-119)
GetSort(g) ==
  /\ mode = "collector" /\ g \in DOMAIN gpc /\ gpc[g] = "getPop"
  /\ Len(scoredResults) = numResults
  /\ ranked' = PhotosOf(SortSlice("ws", scoredResults))
  /\ gpc' = [gpc EXCEPT ![g] = "getUnlock"]
  /\ UNCHANGED <<collRest, h, mu, pending, pushSp, pushRoot, numResults,
                 scoredResults, order>>

\* the deferred c.mu.Unlock() of GetRankedPhotos (collector.go:92)
GetUnlock(g) ==
  /\ mode = "collector" /\ g \in DOMAIN gpc /\ gpc[g] = "getUnlock"
  /\ mu' = -1
  /\ gpc' = [gpc EXCEPT ![g] = "done"]
  /\ UNCHANGED <<collRest, h, collVars>>

\* the steps of a goroutine calling Push, and of the one calling
\* GetRankedPhotos
CoPusher(g) ==
  \/ CoCall(g) \/ CoLock(g) \/ CoCheck(g) \/ CoRoot(g) \/ CoPop(g)
  \/ CoPush(g) \/ CoUnlock(g)

CoGetter(g) == GetLock(g) \/ GetLen(g) \/ GetPop(g) \/ GetSort(g) \/ GetUnlock(g)

NextCollector == \E g \in DOMAIN gpc : CoPusher(g) \/ CoGetter(g)

\* scored photos with pairwise distinct (score, downloads, id): two that
\* differ in the id only, one with more downloads, one with a lower and
\* one with a higher score
CollectorItems ==
  { [photo |-> Photo(<<65>>, <<>>, <<>>, 5), score |-> 7],
    [photo |-> Photo(<<66>>, <<>>, <<>>, 5), score |-> 7],
    [photo |-> Photo(<<67>>, <<>>, <<>>, 9), score |-> 7],
    [photo |-> Photo(<<68>>, <<>>, <<>>, 9), score |-> 0],
    [photo |-> Photo(<<69>>, <<>>, <<>>, 1), score |-> 12] }

\* NewCollector(topK) (collector.go:47-54), pushers 0..np-1 and goroutine
\* np, which calls GetRankedPhotos at a moment of its choice
InitCollector ==
  /\ InitRanker /\ InitBarrierIdle /\ InitDequeIdle /\ InitCallsIdle
  /\ mode = "collector" /\ query = <<>> /\ photos = <<>>
  /\ topK \in 0..MaxTopK
  /\ reqWorkers = 0
  /\ mu = -1
  /\ pending \in {S \in SUBSET CollectorItems : Cardinality(S) <= MaxOffers}
  /\ \E np \in 1..MaxPushers :
       /\ gpc = [g \in 0..np |-> IF g = np THEN "get" ELSE "idle"]
       /\ pushSp = [g \in 0..(np - 1) |-> <<>>]
       /\ pushRoot = [g \in 0..(np - 1) |-> <<>>]
  /\ numResults = 0 /\ scoredResults = <<>> /\ ranked = <<>>
  /\ order = <<>>
  /\ scores = <<>>

SpecCollector == InitCollector /\ [][NextCollector]_vars

(* ----------------------- Score alone: textmatch.Score ----------------- *)
\* the text s written r times over
RECURSIVE RepeatText(_, _)
RepeatText(s, r) == IF r <= 0 THEN <<>> ELSE s \o RepeatText(s, r - 1)

\* the text s with its k-th word written twice
DupWord(s, k) == SubSeq(s, 1, k) \o SubSeq(s, k, Len(s))

\* the words queries and photo texts are made of: words with synonyms
\* (big, car), their synonyms (large, automobile), a plain word and a
\* stopword
QueryWords == {"big", "car", "large", "foo"}
PhotoWords == {"big", "large", "automobile", "foo", "the"}

\* the description d repeated, and d with one of its words doubled
Variants(d) ==
  {RepeatText(d, r) : r \in 2..MaxRepeat} \cup {DupWord(d, k) : k \in DOMAIN d}

\* a photo and the same photo with its description so changed
ScorePairs ==
  UNION { UNION { { <<Photo(<<65>>, d, a, 0), Photo(<<65>>, d2, a, 0)>> :
                      d2 \in Variants(d) } :
                  a \in {<<>>, <<"foo">>} } :
          d \in BoundedSeq(PhotoWords, MaxPhotoWords) }

\* Score(query, photos[x]) for the next photo of the list (score.go:19-84)
ScoreCall ==
  /\ mode = "score" /\ Len(scores) < Len(photos)
  /\ scores' = Append(scores, Score(query, photos[Len(scores) + 1]))
  /\ UNCHANGED <<inputs, mainVars, workerVars, bspVars, pipeVars, wsVars, wg,
                 hist, gpc, mu, barVars, dequeVars, collVars, callVars>>

NextScore == ScoreCall

InitScore ==
  /\ InitRanker /\ InitBarrierIdle /\ InitDequeIdle /\ InitCollectorIdle
  /\ InitCallsIdle
  /\ gpc = <<>> /\ mu = -1
  /\ mode = "score" /\ topK = 0 /\ reqWorkers = 0
  /\ query \in BoundedSeq(QueryWords, MaxQueryWords)
  /\ photos \in ScorePairs
  /\ scores = <<>>

SpecScore == InitScore /\ [][NextScore]_vars

(* ------------- concurrent Score calls (score.go, tokenize.go) --------- *)
\* getStemmedTokensSet (tokenize.go:88-115) reading the table in memory
TableTokens(table, s, expandSynonyms) ==
  UNION { IF s[x] \notin stopwords /\ ByteLen(s[x]) > 1
          THEN {StemString(s[x])} \cup
               (IF expandSynonyms /\ s[x] \in DOMAIN table
                THEN {StemString(syn) :
                        syn \in {y \in Range(table[s[x]]) :
                                   y \notin stopwords /\ ByteLen(y) > 1}}
                ELSE {})
          ELSE {} : x \in DOMAIN s }

callRest == <<inputs, mainVars, workerVars, bspVars, pipeVars, wsVars, wg,
              hist, mu, barVars, dequeVars, collVars, verdicts>>

\* init() (tokenize.go:47-84): the runtime runs it once, before main
PkgInit ==
  /\ mode = "calls" /\ synTable = <<>>
  /\ synTable' = [word \in {"big", "car"} |-> loadedSynonymMap(word)]
  /\ UNCHANGED <<gpc, scLocal, scores, callRest>>

\* mutant: tokenizing the query consumes the synonym entries it looked up
ScQueryDeletes(g) ==
  /\ mode = "calls" /\ synTable # <<>> /\ gpc[g] = "call"
  /\ scLocal' = [scLocal EXCEPT
       ![g].originalQueryTokenSet = TableTokens(synTable, query, FALSE),
       ![g].allQueryTokensSet = TableTokens(synTable, query, TRUE)]
  /\ synTable' = [word \in DOMAIN synTable |->
                    IF word \in Range(query) THEN <<>> ELSE synTable[word]]
  /\ gpc' = [gpc EXCEPT ![g] = "photo"]
  /\ UNCHANGED <<scores, callRest>>

\* score.go:20-21: the two token sets of the query
ScQuery(g) ==
  /\ mode = "calls" /\ synTable # <<>> /\ gpc[g] = "call"
  /\ scLocal' = [scLocal EXCEPT
       ![g].originalQueryTokenSet = TableTokens(synTable, query, FALSE),
       ![g].allQueryTokensSet = TableTokens(synTable, query, TRUE)]
  /\ gpc' = [gpc EXCEPT ![g] = "photo"]
  /\ UNCHANGED <<synTable, scores, callRest>>

\* score.go:24-55: photoText, its token set, and the early return
ScPhoto(g) ==
  /\ mode = "calls" /\ gpc[g] = "photo"
  /\ LET photoOriginalsSet ==
           TableTokens(synTable, photoText(photos[1]), FALSE)
     IN /\ scLocal' = [scLocal EXCEPT
                         ![g].photoOriginalsSet = photoOriginalsSet,
                         ![g].todo = photoOriginalsSet,
                         ![g].rawScore = 0]
        /\ IF photoOriginalsSet = {}
           THEN /\ scores' = [scores EXCEPT ![g] = <<0>>]
                /\ gpc' = [gpc EXCEPT ![g] = "done"]
           ELSE /\ scores' = scores
                /\ gpc' = [gpc EXCEPT ![g] = "range"]
  /\ UNCHANGED <<synTable, callRest>>

\* score.go:57-67: one iteration of the range over photoOriginalsSet; a Go
\* map is ranged over in an unspecified order, so any token not yet visited
\* may come next.  The float32 additions are exact: every partial sum is a
\* multiple of 0.5 far below 2^24
ScRange(g) ==
  /\ mode = "calls" /\ gpc[g] = "range"
  /\ \E pOrigToken \in scLocal[g].todo :
       scLocal' = [scLocal EXCEPT
         ![g].todo = @ \ {pOrigToken},
         ![g].rawScore =
            IF pOrigToken \in scLocal[g].originalQueryTokenSet
            THEN @ + originalWordMatchBonus
            ELSE IF pOrigToken \in scLocal[g].allQueryTokensSet
            THEN @ + synonymMatchBonus
            ELSE @]
  /\ UNCHANGED <<gpc, synTable, scores, callRest>>

\* score.go:69-83: the range is over; normalise and return
ScReturn(g) ==
  /\ mode = "calls" /\ gpc[g] = "range" /\ scLocal[g].todo = {}
  /\ scores' = [scores EXCEPT ![g] =
       <<IF scLocal[g].rawScore = 0 THEN 0
         ELSE (scLocal[g].rawScore * ScoreScale) \div
              LogMilli(Cardinality(scLocal[g].photoOriginalsSet))>>]
  /\ gpc' = [gpc EXCEPT ![g] = "done"]
  /\ UNCHANGED <<synTable, scLocal, callRest>>

ScCall(g) == ScQuery(g) \/ ScPhoto(g) \/ ScRange(g) \/ ScReturn(g)

NextCalls == PkgInit \/ \E g \in DOMAIN gpc : ScCall(g)

\* the words of the texts: a word with synonyms, one of its synonyms, a
\* plain word, a stopword, a one-letter ASCII word and a one-letter
\* non-ASCII word
CallWords == {"big", "large", "foo", "the", "b", "U+00E9"}

\* MaxCalls goroutines call Score(query, photos[1]) concurrently; the
\* package is not initialised yet
InitCalls ==
  /\ InitRanker /\ InitBarrierIdle /\ InitDequeIdle /\ InitCollectorIdle
  /\ mu = -1
  /\ mode = "calls" /\ topK = 0 /\ reqWorkers = 0
  /\ query \in BoundedSeq(CallWords, MaxCallWords)
  /\ \E d \in BoundedSeq(CallWords, MaxCallWords) :
       photos = <<Photo(<<65>>, d, <<>>, 0)>>
  /\ synTable = <<>> /\ verdicts = <<>>
  /\ \E n \in 2..MaxCalls :
       /\ gpc = [g \in 0..(n - 1) |-> "call"]
       /\ scLocal = [g \in 0..(n - 1) |->
                       [originalQueryTokenSet |-> {}, allQueryTokensSet |-> {},
                        photoOriginalsSet |-> {}, todo |-> {}, rawScore |-> 0]]
       /\ scores = [g \in 0..(n - 1) |-> <<>>]

SpecCalls == InitCalls /\ [][NextCalls]_vars

(* --------- the ordering predicates of the four packages, compared ----- *)
\* the replacement test of the package's top-K loop
Replaces(pkg, sp, root) ==
  CASE pkg = "textmatch" -> shouldReplace(sp, root)
    [] pkg = "bsp" -> bspShouldReplace(sp, root)
    [] pkg = "pipeline" -> pipelineShouldReplace(sp, root)
    [] pkg = "ws" -> wsShouldReplace(sp, root)

Packages == {"textmatch", "bsp", "pipeline", "ws"}

\* with a = scoredResults[1] and b = scoredResults[2]: each package's
\* photoHeap.Less for (b, a), its replacement test for a against the root
\* b, and its sort comparator for (a, b)
OrderCompare ==
  /\ mode = "order" /\ verdicts = <<>>
  /\ verdicts' =
       [pkg \in Packages |->
          [less |-> Less(pkg, scoredResults[2], scoredResults[1]),
           replaces |-> Replaces(pkg, scoredResults[1], scoredResults[2]),
           before |-> Before(pkg, scoredResults[1], scoredResults[2])]]
  /\ UNCHANGED <<inputs, mainVars, workerVars, bspVars, pipeVars, wsVars, wg,
                 hist, gpc, mu, barVars, dequeVars, collVars, scores,
                 synTable, scLocal>>

NextOrder == OrderCompare

\* scored photos differing in score, downloads and id, ids that are
\* prefixes of one another included
OrderItems ==
  {[photo |-> Photo(id, <<>>, <<>>, d), score |-> sc] :
     id \in {<<65>>, <<65, 65>>, <<66>>}, d \in 0..MaxOrderValue,
     sc \in 0..MaxOrderValue}

InitOrder ==
  /\ InitRanker /\ InitBarrierIdle /\ InitDequeIdle
  /\ mode = "order" /\ query = <<>> /\ photos = <<>> /\ topK = 0
  /\ reqWorkers = 0 /\ gpc = <<>> /\ mu = -1 /\ scores = <<>>
  /\ InitCallsIdle
  /\ pending = {} /\ pushSp = <<>> /\ pushRoot = <<>> /\ numResults = 2
  /\ ranked = <<>> /\ order = <<>>
  /\ scoredResults \in [1..2 -> OrderItems]

SpecOrder == InitOrder /\ [][NextOrder]_vars

(* ====================================================================== *)
(*                          properties checked                            *)
(* ====================================================================== *)
Min(a, b) == IF a < b THEN a ELSE b

\* a ranks strictly above b: higher score, then more downloads, then
\* lexicographically smaller id
RanksAbove(a, b) ==
  LET sa == Score(query, a)
      sb == Score(query, b)
  IN \/ sa > sb
     \/ sa = sb /\ a.StatsDownloads > b.StatsDownloads
     \/ sa = sb /\ a.StatsDownloads = b.StatsDownloads
        /\ StrLess(a.PhotoID, b.PhotoID)

\* number of entries of the list s equal to x
Occurrences(s, x) == Cardinality({y \in DOMAIN s : s[y] = x})

\* C1: whatever the interleaving of producer, scorers and collector, a
\* finished RankScoringPipeline call on a non-empty list with k >= 1 has
\* returned the ids textmatch.Rank returns on the same inputs, in order.
C1_PipelineEqualsRank ==
  (mode = "pipeline" /\ pc = "done" /\ Len(photos) >= 1 /\ topK >= 1)
    => IDs(result) = IDs(Rank(query, photos, topK))

\* a finished pipeline call with two scorers that left a candidate out
C1_Witness ==
  /\ mode = "pipeline" /\ pc = "done" /\ numWorkers = 2 /\ reqWorkers = 2
  /\ Len(photos) = 3 /\ topK = 2 /\ Len(result) = 2
  /\ photos[1] \notin Range(result)

\* C2: whatever the interleaving of local pops, steals and collector
\* pushes, a finished RankWS call on a non-empty list with k >= 1 has
\* returned the ids textmatch.Rank returns on the same inputs, in order.
C2_WSEqualsRank ==
  (mode = "ws" /\ pc = "done" /\ Len(photos) >= 1 /\ topK >= 1)
    => IDs(result) = IDs(Rank(query, photos, topK))

\* a finished RankWS call in which a worker stole a task and a candidate
\* was left out
C2_Witness ==
  /\ mode = "ws" /\ pc = "done" /\ numWorkers = 2
  /\ Len(photos) = 3 /\ topK = 1 /\ Len(result) = 1
  /\ photos[1] \notin Range(result)
  /\ hist.stolen >= 1

RECURSIVE BspLocalLoop(_, _, _, _)
\* the local heap of a worker whose chunk is ps (barrier.go:119-144)
BspLocalLoop(q, ps, kk, hp) ==
  IF ps = <<>> THEN hp
  ELSE BspLocalLoop(q, Tail(ps), kk,
         BspLocalOffer(hp, [photo |-> ps[1], score |-> Score(q, ps[1])], kk))

\* RankBSP(query, photos, k, 1): one worker, one chunk
RankBSPOneWorker(q, ps, kk) ==
  IF BspGuard(kk, ps) THEN <<>>
  ELSE BspDrain(BspReduceAll(<<>>, <<BspLocalLoop(q, ps, kk, <<>>)>>, kk))

\* C3: for a non-empty list, k >= 1 and a positive worker count RankBSP
\* returns (it does not fail), and what it returns has the ids of RankBSP
\* with one worker and of textmatch.Rank, in order.
C3_BSPEqualsRank ==
  (mode = "bsp" /\ Len(photos) >= 1 /\ topK >= 1 /\ reqWorkers >= 1)
    => /\ pc # "panic"
       /\ pc = "done" =>
            /\ IDs(result) = IDs(RankBSPOneWorker(query, photos, topK))
            /\ IDs(result) = IDs(Rank(query, photos, topK))

\* C4: the list Rank returns is a true top-K: its entries are candidates,
\* and a candidate of which a copy was left out does not rank strictly
\* above any entry of the result.
C4_RankTopK ==
  (mode = "seq" /\ pc = "done" /\ topK >= 1)
    => /\ \A r \in DOMAIN result :
            Occurrences(result, result[r]) <= Occurrences(photos, result[r])
       /\ \A x \in DOMAIN photos :
            Occurrences(result, photos[x]) < Occurrences(photos, photos[x])
              => \A r \in DOMAIN result : ~RanksAbove(photos[x], result[r])

\* Rank with k = 1 on "B" then "A", which tie on score and downloads,
\* has returned "A"
C4_Witness ==
  /\ mode = "seq" /\ pc = "done" /\ topK = 1 /\ Len(photos) = 2
  /\ photos[1].PhotoID = <<66>> /\ photos[2].PhotoID = <<65>>
  /\ Score(query, photos[1]) = Score(query, photos[2])
  /\ photos[1].StatsDownloads = photos[2].StatsDownloads
  /\ IDs(result) = << <<65>> >>

\* C5: every list a ranker returns is sorted: scores non-increasing, then
\* downloads non-increasing, then ids non-decreasing.
C5_ResultSorted ==
  pc = "done" =>
    \A x \in 1..(Len(result) - 1) :
      LET a == result[x]
          b == result[x + 1]
          sa == Score(query, a)
          sb == Score(query, b)
      IN /\ sa >= sb
         /\ sa = sb => a.StatsDownloads >= b.StatsDownloads
         /\ (sa = sb /\ a.StatsDownloads = b.StatsDownloads)
              => ~StrLess(b.PhotoID, a.PhotoID)

\* a returned list of two photos that tie on score and downloads, from a
\* candidate list that had them in the other order
C5_Witness ==
  /\ pc = "done" /\ Len(result) = 2 /\ Len(photos) = 2
  /\ result[1].PhotoID = <<65>> /\ result[2].PhotoID = <<66>>
  /\ photos[1].PhotoID = <<66>> /\ photos[2].PhotoID = <<65>>

\* C6: for k >= 1 every returned list has length min(k, N), candidates
\* that score 0 included, and the top-K heap never holds more than k.
C6_ResultLength ==
  topK >= 1 =>
    /\ Len(h) <= topK
    /\ pc = "done" => Len(result) = Min(topK, Len(photos))

\* a returned list of length k < N that contains a photo scoring 0
C6_Witness ==
  /\ pc = "done" /\ mode = "ws" /\ topK = 2 /\ Len(photos) = 3
  /\ Len(result) = 2
  /\ Score(query, result[2]) = 0

\* C7: with k <= 0 or no candidate a call returns nil at once: it starts
\* no goroutine, creates no channel, barrier, deque or heap, and its one
\* step is always possible.
C7_DegenerateReturnsNil ==
  (topK <= 0 \/ Len(photos) = 0)
    => /\ pc \in {"call", "done"}
       /\ result = <<>>
       /\ started = 0 /\ created = {} /\ numWorkers = 0
       /\ pc = "call" => ENABLED Next

\* a RankWS call with candidates and k = 0 that has returned
C7_Witness ==
  /\ mode = "ws" /\ pc = "done" /\ topK = 0 /\ Len(photos) = 2
  /\ result = <<>>

\* the worker count each ranker is to run for a request of req workers
ExpectedWorkers(m, req, n) ==
  IF req <= 0 THEN (IF m = "bsp" THEN Min(1, n) ELSE Min(NumCPU, n))
  ELSE Min(req, n)

\* C8: for N >= 1 and k >= 1 no ranker fails because of the worker count
\* requested, and the count it runs with is the request clamped to 1..N
\* (1 for BSP, the CPU count for the pipeline and WS when W <= 0).
C8_WorkerCountClamped ==
  (mode # "seq" /\ Len(photos) >= 1 /\ topK >= 1)
    => /\ pc # "panic"
       /\ pc # "call" =>
            /\ numWorkers \in 1..Len(photos)
            /\ numWorkers = ExpectedWorkers(mode, reqWorkers, Len(photos))

\* RankWS under the scheduling Go provides: every goroutine that can
\* take a step eventually takes one
InitWSFair ==
  InitState /\ InitArgs("ws", BoundedSeq(PhotoPoolBSP, MaxPhotos), 0..MaxWorkers)

FairSpecWS ==
  /\ InitWSFair /\ [][NextWS]_vars
  /\ WF_vars(WSMain)
  /\ \A w \in 0..MaxPhotos : WF_vars(WSWorker(w))

\* C9: RankWS terminates: eventually the call has returned, every task
\* was pushed, the counter is 0, quitSignal is closed and every worker
\* has returned.
C9_WSTerminates ==
  <>(/\ pc = "done"
     /\ \A w \in DOMAIN wpc : wpc[w] = "done"
     /\ numWorkers > 0 =>
          /\ quitSignal /\ tasksWg = 0 /\ wg = 0
          /\ \A x \in DOMAIN hist.pushed : hist.pushed[x] = 1)

\* a returned RankWS call whose two workers have both returned
C9_Witness ==
  /\ mode = "ws" /\ pc = "done" /\ numWorkers = 2 /\ Len(photos) = 3
  /\ wpc[0] = "done" /\ wpc[1] = "done" /\ quitSignal

\* C10: every task is taken at most once and pushed at most once, only
\* after it was taken; the counter is N minus the decrements made, never
\* negative, hits 0 at most once, and when quitSignal is closed every
\* task was taken, pushed and counted exactly once.
C10_TaskExactlyOnce ==
  mode = "ws" =>
    /\ \A x \in DOMAIN hist.taken :
         /\ hist.taken[x] <= 1
         /\ hist.pushed[x] <= hist.taken[x]
    /\ tasksWg >= 0
    /\ hist.zeros <= 1
    /\ hist.decs <= Len(photos)
    /\ pc \in {"launch", "waitPool", "done"} /\ numWorkers > 0
         => tasksWg = Len(photos) - hist.decs
    /\ quitSignal =>
         /\ \A x \in DOMAIN hist.taken :
              hist.taken[x] = 1 /\ hist.pushed[x] = 1
         /\ hist.decs = Len(photos) /\ hist.zeros = 1 /\ tasksWg = 0

\* quitSignal is closed after a run of two workers on three tasks, one
\* of them stolen
C10_Witness ==
  /\ mode = "ws" /\ quitSignal /\ numWorkers = 2 /\ Len(photos) = 3
  /\ hist.decs = 3 /\ hist.zeros = 1 /\ hist.stolen = 1
  /\ \A x \in DOMAIN hist.taken : hist.taken[x] = 1

\* RankScoringPipeline under the scheduling Go provides: the caller, every
\* scorer, the closer and the collector each take a step when they can
InitPipelineFair ==
  InitState
  /\ InitArgs("pipeline", BoundedSeq(PhotoPoolBSP, MaxPhotos), 0..MaxWorkers)

FairSpecPipeline ==
  /\ InitPipelineFair /\ [][NextPipeline]_vars
  /\ WF_vars(PipeMain)
  /\ WF_vars(PipeCloser)
  /\ WF_vars(PipeCollect)
  /\ \A w \in 0..MaxPhotos : WF_vars(PipeScorer(w))

\* C11: RankScoringPipeline never reaches a state short of its return in
\* which no goroutine can take a step (a full results channel included),
\* and it terminates: eventually the caller has the collector's final
\* list, every scorer has returned and, when goroutines were started,
\* both channels are closed and drained.
C11_PipelineTerminates ==
  /\ [](pc # "done" => ENABLED NextPipeline)
  /\ <>(/\ pc = "done"
        /\ result = finalRanked
        /\ \A w \in DOMAIN wpc : wpc[w] = "done"
        /\ numWorkers > 0 =>
             /\ cpc = "done" /\ clpc = "done" /\ wg = 0
             /\ closedCh = {"photosToScoreCh", "resultsCh"}
             /\ photosToScoreCh = <<>> /\ resultsCh = <<>>)

\* one scorer, three candidates: the results channel holds 2*S = 2 items
\* and the scorer is blocked sending the third
C11_Witness ==
  /\ mode = "pipeline" /\ numWorkers = 1 /\ Len(photos) = 3 /\ topK >= 1
  /\ Len(resultsCh) = ResultsCap /\ wpc[0] = "send"
  /\ ~ENABLED PipeScorer(0)

\* C12: in every phase no goroutine has returned from more calls of Wait
\* than any goroutine has made: a return from the p-th call comes after
\* the p-th call of all n goroutines.
C12_BarrierHoldsPhase ==
  mode = "barrier" =>
    \A g \in DOMAIN gpc : \A x \in DOMAIN gpc :
      waitReturns[g] <= waitCalls[x]

\* three goroutines in their second phase: one has returned from its
\* second Wait while another, woken, is still inside it
C12_Witness ==
  /\ mode = "barrier" /\ numGoroutines = 3
  /\ \E g \in DOMAIN gpc : \E x \in DOMAIN gpc :
       /\ waitReturns[g] = 2
       /\ gpc[x] = "woken" /\ waitCalls[x] = 2 /\ waitReturns[x] = 1

\* C13: the barrier is reusable: no cycle is passed by more than n
\* goroutines, and eventually every goroutine has returned from all c of
\* its calls and every cycle was passed by exactly n goroutines.
C13_BarrierReusable ==
  /\ [](mode = "barrier" =>
          \A c \in DOMAIN counters : counters[c] <= numGoroutines)
  /\ <>(/\ \A g \in DOMAIN gpc :
             gpc[g] = "done" /\ waitReturns[g] = numCycles
        /\ \A c \in DOMAIN counters : counters[c] = numGoroutines
        /\ count = 0)

\* three goroutines have all left their third cycle
C13_Witness ==
  /\ mode = "barrier" /\ numGoroutines = 3 /\ numCycles = 3
  /\ \A g \in DOMAIN gpc : gpc[g] = "done" /\ waitReturns[g] = 3
  /\ \A c \in DOMAIN counters : counters[c] = 3

\* C14: no task is returned by two pops. Every task is, at any moment,
\* in exactly one place: still in the deque, taken out by a pop that has
\* yet to return, or returned by exactly one pop; no pop panics; and once
\* all poppers have been told the deque is empty, every task was
\* returned exactly once.
C14_NoTaskPoppedTwice ==
  mode = "deque" =>
    /\ \A g \in DOMAIN gpc : gpc[g] # "panic"
    /\ \A t \in 1..numTasks :
         LET inDeque == Cardinality({x \in DOMAIN dTasks : dTasks[x] = t})
             inFlight == Cardinality({g \in DOMAIN gpc :
                           gpc[g] = "unlock" /\ popTask[g] = t})
             popped == Cardinality({<<g, x>> \in
                           UNION {{g} \X DOMAIN returned[g] :
                                    g \in DOMAIN gpc} :
                           returned[g][x] = t})
         IN /\ popped <= 1
            /\ inDeque + inFlight + popped = 1
    /\ (\A g \in DOMAIN gpc : gpc[g] = "done") =>
         \A g \in DOMAIN gpc :
           /\ returned[g] # <<>>
           /\ returned[g][Len(returned[g])] = 0

\* one task, owner and one stealer popping concurrently: the stealer got
\* the task, the owner was told the deque is empty
C14_Witness ==
  /\ mode = "deque" /\ numTasks = 1 /\ DOMAIN gpc = {0, 1}
  /\ returned[0] = <<0>>
  /\ returned[1] = <<1, 0>>

\* the order of the top-K lists on scored photos: a is strictly below b
\* when it has the lower score, or the same score and fewer downloads,
\* or the same score and downloads and the lexicographically larger id
SpBelow(a, b) ==
  \/ a.score < b.score
  \/ /\ a.score = b.score
     /\ a.photo.StatsDownloads < b.photo.StatsDownloads
  \/ /\ a.score = b.score
     /\ a.photo.StatsDownloads = b.photo.StatsDownloads
     /\ StrLess(b.photo.PhotoID, a.photo.PhotoID)

\* hp holds at most kk elements and, when it holds kk, none of them is
\* below its root
TopKHeapOK(hp, kk) ==
  /\ Len(hp) <= (IF kk > 0 THEN kk ELSE 0)
  /\ Len(hp) = kk => \A x \in DOMAIN hp : ~SpBelow(hp[x], hp[1])

\* C15: the heap of every ranker (Rank's h, RankBSP's final heap, the
\* pipeline collector's h, the WS Collector's h) and every local heap of
\* RankBSP holds at most K elements after any offers, and when it holds
\* K its root is a minimum of its contents under (score, downloads,
\* reversed id).
C15_HeapBoundedRootMin ==
  /\ TopKHeapOK(h, topK)
  /\ \A w \in DOMAIN localHeaps : TopKHeapOK(localHeaps[w], topK)

\* a WS Collector that was offered three photos holds K = 2 of them, its
\* root strictly below the other one
C15_Witness ==
  /\ mode = "ws" /\ topK = 2 /\ Len(h) = 2 /\ SpBelow(h[1], h[2])
  /\ Cardinality({x \in DOMAIN hist.pushed : hist.pushed[x] = 1}) = 3

\* the scored photo offered to h by this step, as <<sp>>, or <<>> when
\* the step is no offer: an iteration of Rank's loop, a receive of the
\* pipeline's collector, a worker's Collector.Push
Offered ==
  IF mode = "seq" /\ pc = "loop" /\ i' = i + 1
  THEN <<[photo |-> photos[i + 1], score |-> Score(query, photos[i + 1])]>>
  ELSE IF mode = "pipeline" /\ cpc = "recv" /\ resultsCh # <<>>
          /\ resultsCh' = Tail(resultsCh)
  THEN <<Head(resultsCh)>>
  ELSE IF mode = "ws" /\ \E w \in DOMAIN wpc :
                           wpc[w] = "push" /\ wpc'[w] = "taskDone"
  THEN LET w == CHOOSE w \in DOMAIN wpc :
                  wpc[w] = "push" /\ wpc'[w] = "taskDone"
       IN <<[photo |-> held[w][1].Photo,
             score |-> Score(held[w][1].Query, held[w][1].Photo)]>>
  ELSE <<>>

\* C16: an offer of sp to a heap that holds K elements replaces the root
\* exactly when the root is strictly below sp: then the heap holds what
\* it held with one copy of the root exchanged for sp; otherwise (sp
\* equal to the root in score, downloads and id, or below it) the heap
\* is left as it was.
C16_ReplaceIffGreater ==
  [][ (Offered # <<>> /\ topK >= 1 /\ Len(h) = topK) =>
        LET sp == Offered[1]
            root == h[1]
        IN IF SpBelow(root, sp)
           THEN /\ Len(h') = topK
                /\ \A x \in Range(h) \cup {sp} :
                     Occurrences(h', x) =
                       Occurrences(h, x) - (IF x = root THEN 1 ELSE 0)
                                         + (IF x = sp THEN 1 ELSE 0)
           ELSE h' = h ]_vars

\* a WS Collector holding K = 1 photo was offered three photos: its root
\* is above at least one of them and below none
C16_Witness ==
  /\ mode = "ws" /\ topK = 1 /\ Len(h) = 1 /\ Len(photos) = 3
  /\ Cardinality({x \in DOMAIN hist.pushed : hist.pushed[x] = 1}) = 3
  /\ \E x \in DOMAIN photos :
       SpBelow([photo |-> photos[x], score |-> Score(query, photos[x])], h[1])
  /\ \A x \in DOMAIN photos :
       ~SpBelow(h[1], [photo |-> photos[x], score |-> Score(query, photos[x])])

\* the goroutines inside a critical section of the Collector
InCollector ==
  {g \in DOMAIN gpc :
     gpc[g] \in {"check", "root", "pop", "push", "unlock",
                 "len", "getPop", "getUnlock"}}

RECURSIVE SerialHeap(_, _)
\* the heap after the calls of ops made one after another, each as a whole
SerialHeap(ops, kk) ==
  IF ops = <<>> THEN <<>>
  ELSE LET before == SerialHeap(SubSeq(ops, 1, Len(ops) - 1), kk)
           op == ops[Len(ops)]
       IN IF op = <<>> THEN <<>> ELSE CollectorPush(before, op[1], kk)

\* position in order of the call of GetRankedPhotos (0: not made yet)
GetAt ==
  IF \E x \in DOMAIN order : order[x] = <<>>
  THEN CHOOSE x \in DOMAIN order : order[x] = <<>>
  ELSE 0

\* C17: calls of Collector.Push and GetRankedPhotos exclude each other:
\* at most one goroutine is between its Lock and its Unlock, it is the
\* holder of the mutex, and no call panics. Whenever the mutex is free
\* the heap is the one the calls made so far leave when they are applied
\* whole, one after another, in the order they took the mutex, and what
\* GetRankedPhotos returned is what it returns at its place in that order.
C17_PushesSerialize ==
  mode = "collector" =>
    /\ \A g \in DOMAIN gpc : gpc[g] # "panic"
    /\ Cardinality(InCollector) <= 1
    /\ \A g \in DOMAIN gpc : g \in InCollector <=> mu = g
    /\ mu = -1 => h = SerialHeap(order, topK)
    /\ (\E g \in DOMAIN gpc \ DOMAIN pushSp : gpc[g] = "done") =>
         /\ GetAt > 0
         /\ ranked = GetRankedPhotos(
                       SerialHeap(SubSeq(order, 1, GetAt - 1), topK))

\* two pushers have pushed three photos into a Collector of size 1, and
\* GetRankedPhotos took the mutex between the second and the third push
C17_Witness ==
  /\ mode = "collector" /\ topK = 1 /\ DOMAIN gpc = {0, 1, 2}
  /\ \A g \in DOMAIN gpc : gpc[g] = "done"
  /\ Len(order) = 4 /\ GetAt = 3
  /\ Len(h) = 1 /\ Len(ranked) = 1

\* the scored photos pushed at positions lo..hi of order
PushedIn(lo, hi) ==
  {order[x][1] : x \in {y \in lo..hi : y \in DOMAIN order /\ order[y] # <<>>}}

\* the kk greatest elements of S (all of S when it has fewer)
TopSet(S, kk) == {x \in S : Cardinality({y \in S : SpBelow(x, y)}) < kk}

\* the photos of TopSet(S, kk), greatest first
TopList(S, kk) ==
  [x \in 1..Min(IF kk > 0 THEN kk ELSE 0, Cardinality(S)) |->
     (CHOOSE y \in S : Cardinality({z \in S : SpBelow(y, z)}) = x - 1).photo]

\* C18: whatever the order in which scored photos with pairwise distinct
\* (score, downloads, id) are pushed, and by whichever pusher, between
\* two calls the collector holds exactly the min(K, n) greatest of the n
\* photos pushed since it was last drained, and GetRankedPhotos returns
\* them greatest first: the list depends on the set pushed, not on the
\* order of the pushes.
C18_OfferOrderIrrelevant ==
  mode = "collector" =>
    /\ mu = -1 =>
         LET S == PushedIn(GetAt + 1, Len(order))
         IN /\ Range(h) = TopSet(S, topK)
            /\ Len(h) = Cardinality(TopSet(S, topK))
            /\ Len(h) = Min(IF topK > 0 THEN topK ELSE 0, Cardinality(S))
    /\ (\E g \in DOMAIN gpc \ DOMAIN pushSp : gpc[g] = "done") =>
         ranked = TopList(PushedIn(1, GetAt - 1), topK)

\* three photos were pushed into a Collector of size 2, the least of
\* them first, and GetRankedPhotos then returned the other two
C18_Witness ==
  /\ mode = "collector" /\ topK = 2 /\ Len(order) = 4 /\ GetAt = 4
  /\ \E g \in DOMAIN gpc \ DOMAIN pushSp : gpc[g] = "done"
  /\ order[1][1] \notin TopSet(PushedIn(1, 3), 2)
  /\ SpBelow(order[3][1], order[2][1])
  /\ Len(ranked) = 2

C20_ScoreCountsUniqueStems ==
  mode = "score" /\ Len(scores) = 2 => scores[1] = scores[2]

\* "foo large" and the same description three times over both score
\* 10 / ln 3 for the query "foo"
C20_Witness ==
  /\ mode = "score" /\ query = <<"foo">>
  /\ photos[1].PhotoDescription = <<"foo", "large">>
  /\ photos[1].AiDescription = <<>>
  /\ photos[2].PhotoDescription = RepeatText(<<"foo", "large">>, 3)
  /\ Len(scores) = 2
  /\ scores[2] = (100 * ScoreScale) \div LogMilli(2)

\* C21: Score is deterministic and writes nothing shared.  Nothing but
\* package initialisation writes the synonym table, so the table in memory
\* is either nil (before init) or what init loaded; and every Score call
\* that has returned, whatever the other concurrent calls were doing and in
\* whatever order it ranged over the photo's token set, returned the value
\* of Score for its arguments, so calls with the same arguments agree.
C21_ScoreDeterministic ==
  mode = "calls" =>
    /\ synTable \in {<<>>, [word \in {"big", "car"} |-> loadedSynonymMap(word)]}
    /\ \A g \in DOMAIN gpc :
         gpc[g] = "done" => scores[g] = <<Score(query, photos[1])>>
    /\ \A g1, g2 \in DOMAIN gpc :
         gpc[g1] = "done" /\ gpc[g2] = "done" => scores[g1] = scores[g2]

\* two concurrent calls have returned the same non-zero score for a photo
\* with two tokens, one an original match and one a synonym match
C21_Witness ==
  /\ mode = "calls"
  /\ \A g \in DOMAIN gpc : gpc[g] = "done" /\ scores[g][1] > 0
  /\ \E g \in DOMAIN gpc :
       /\ Cardinality(scLocal[g].photoOriginalsSet) = 2
       /\ scLocal[g].rawScore = originalWordMatchBonus + synonymMatchBonus

\* the number of letters of a word of the modelled vocabulary
Letters(word) == IF word \in {"a", "b", "U+00E9"} THEN 1 ELSE ByteLen(word)

\* the text s without its stopwords and its words of at most one letter
Surviving(s) ==
  SelectSeq(s, LAMBDA word : word \notin stopwords /\ Letters(word) > 1)

\* C22: tokenization drops every surface word that is a stopword or has at
\* most one letter, ASCII or not: the token set of a text is the token set
\* of its other words, so it is empty when there are none; and no synonym
\* that is a stopword or has at most one letter puts its stem in the set.
C22_DropsStopwordsAndShortWords ==
  mode = "calls" =>
    \A g \in DOMAIN gpc :
      /\ gpc[g] \in {"photo", "range", "done"} =>
           /\ scLocal[g].originalQueryTokenSet =
                TableTokens(synTable, Surviving(query), FALSE)
           /\ scLocal[g].allQueryTokensSet =
                TableTokens(synTable, Surviving(query), TRUE)
           /\ Surviving(query) = <<>> => scLocal[g].allQueryTokensSet = {}
           /\ \A word \in Range(query) \cap DOMAIN synTable :
                \A syn \in Range(synTable[word]) :
                  syn \in stopwords \/ Letters(syn) <= 1 =>
                    StemString(syn) \notin scLocal[g].allQueryTokensSet
      /\ gpc[g] \in {"range", "done"} =>
           /\ scLocal[g].photoOriginalsSet =
                TableTokens(synTable, Surviving(photoText(photos[1])), FALSE)
           /\ Surviving(photoText(photos[1])) = <<>> =>
                scLocal[g].photoOriginalsSet = {}

\* C23: in RankBSP the reduce phase starts only after every worker has
\* scored its whole chunk, passed the barrier and returned; and a step that
\* changes a local heap is either its own worker offering the next photo of
\* its chunk while the main goroutine is still short of the reduce, or the
\* main goroutine's reduce when every worker has returned: no local heap is
\* touched by two goroutines at once.
C23_ReduceAfterEveryWorker ==
  /\ [](mode = "bsp" /\ pc \in {"drain", "done"} =>
          \A w \in DOMAIN wpc :
            wpc[w] = "done" /\ chunks[w].start = chunks[w].end)
  /\ [][mode = "bsp" =>
          \A x \in DOMAIN localHeaps :
            localHeaps'[x] # localHeaps[x] =>
              \/ /\ wpc[x - 1] = "score" /\ pc = "launch" /\ pc' = "launch"
                 /\ chunks'[x - 1].start = chunks[x - 1].start + 1
                 /\ \A y \in DOMAIN localHeaps \ {x} :
                      localHeaps'[y] = localHeaps[y]
              \/ /\ pc = "launch" /\ pc' = "drain"
                 /\ \A w \in DOMAIN wpc : wpc[w] = "done"]_vars

\* the reduce has run over the heaps of two returned workers
C23_Witness ==
  /\ mode = "bsp" /\ pc = "drain" /\ numWorkers >= 2 /\ Len(h) >= 2
  /\ \A w \in DOMAIN wpc : wpc[w] = "done"

\* C24: once RankBSP has clamped the worker count to W with 1 <= W <= N,
\* the W chunks [x*c, min((x+1)*c, N)), c = ceil(N/W), are valid ranges
\* (0 <= start <= end <= N), so that slicing them does not panic; they are
\* contiguous from 0 to N, hence pairwise disjoint and covering every index
\* once; and only the last is shorter than c.
C24_ChunksPartition ==
  (mode = "bsp" /\ pc # "call" /\ numWorkers >= 1) =>
    LET n == Len(photos)
        nw == numWorkers
    IN /\ pc # "panic"
       /\ \A x \in 0..(nw - 1) :
            /\ 0 <= chunkStart(x, n, nw)
            /\ chunkStart(x, n, nw) <= chunkEnd(x, n, nw)
            /\ chunkEnd(x, n, nw) <= n
       /\ chunkStart(0, n, nw) = 0
       /\ chunkEnd(nw - 1, n, nw) = n
       /\ \A x \in 0..(nw - 2) :
            /\ chunkEnd(x, n, nw) = chunkStart(x + 1, n, nw)
            /\ chunkEnd(x, n, nw) - chunkStart(x, n, nw) = chunkSize(n, nw)

\* C25: the BSP reduction is exact.  When the main goroutine has offered
\* the contents of the workers' local top-K heaps to the final heap, the
\* final heap holds min(K, N) scored candidates, each with its Score, none
\* more often than the list holds it, and no candidate of which a copy was
\* left out ranks strictly above any of them.
C25_ReduceExact ==
  (mode = "bsp" /\ pc = "drain") =>
    LET kept == [x \in DOMAIN h |-> h[x].photo]
    IN /\ Len(h) = Min(topK, Len(photos))
       /\ \A x \in DOMAIN h :
            /\ h[x].score = Score(query, h[x].photo)
            /\ Occurrences(kept, kept[x]) <= Occurrences(photos, kept[x])
       /\ \A y \in DOMAIN photos :
            Occurrences(kept, photos[y]) < Occurrences(photos, photos[y])
              => \A x \in DOMAIN h : ~RanksAbove(photos[y], kept[x])

\* three workers' chunks reduced to the two best of five candidates, not
\* all of one chunk
C25_Witness ==
  /\ mode = "bsp" /\ pc = "drain" /\ numWorkers = 3 /\ Len(photos) = 5
  /\ topK = 2 /\ Len(h) = 2
  /\ \E x, y \in DOMAIN photos :
       /\ x <= 2 /\ y > 2
       /\ {h[1].photo, h[2].photo} = {photos[x], photos[y]}
       /\ photos[x] # photos[y]

\* RankBSP under the scheduling Go provides: the main goroutine and every
\* worker that can take a step eventually take one
FairSpecBSP ==
  /\ InitBSP /\ [][NextBSP]_vars
  /\ WF_vars(BSPCall \/ BSPLaunch \/ BSPReduce \/ BSPDrain)
  /\ \A w \in 0..(MaxWorkersBSP - 1) :
       WF_vars(BSPScore(w) \/ BSPBarrierWait(w) \/ BSPWake(w)
               \/ BSPWorkerDone(w))

\* C26: RankBSP never deadlocks at the barrier.  When the launch loop is
\* over, as many workers were launched as the barrier was sized for; a
\* worker is at the barrier only with its chunk exhausted; and every call
\* ends: all workers are released and return, wg.Wait returns and RankBSP
\* returns.
C26_BSPBarrierReleases ==
  /\ [](mode = "bsp" /\ pc \notin {"call", "launch"} /\ numWorkers >= 1 =>
          started = numWorkers)
  /\ [](mode = "bsp" =>
          \A w \in DOMAIN wpc :
            wpc[w] \in {"waiting", "woken", "passed", "done"} =>
              chunks[w].start = chunks[w].end)
  /\ <>(mode = "bsp" =>
          pc = "done" /\ wg = 0 /\ \A w \in DOMAIN wpc : wpc[w] = "done")

\* C27: the pipeline's close protocol.  The candidates channel is closed
\* only when all N candidates have been sent, and the producer sends no
\* more; the results channel is closed only when every scorer has exited;
\* no scorer sends on a closed channel (the call does not panic); when the
\* closer goroutine exists every scorer is registered with the WaitGroup,
\* whose counter is the number of scorers still running; each of the two
\* close statements runs on a channel that is still open, and a call that
\* has returned has closed both.
C27_CloseProtocol ==
  /\ [](mode = "pipeline" =>
          /\ pc # "panic"
          /\ "photosToScoreCh" \in closedCh =>
               i = Len(photos) /\ pc \in {"recvFinal", "done"}
          /\ "resultsCh" \in closedCh =>
               /\ clpc = "done"
               /\ \A w \in DOMAIN wpc : wpc[w] = "done" /\ held[w] = <<>>
          /\ clpc # "none" =>
               /\ \A w \in DOMAIN wpc : wpc[w] # "unborn"
               /\ wg = Cardinality({w \in DOMAIN wpc : wpc[w] # "done"})
          /\ (pc = "done" /\ numWorkers >= 1) =>
               closedCh = {"photosToScoreCh", "resultsCh"})
  /\ [][mode = "pipeline" =>
          /\ (pc = "feed" /\ pc' = "recvFinal") =>
               /\ "photosToScoreCh" \notin closedCh
               /\ "photosToScoreCh" \in closedCh'
          /\ (clpc = "wait" /\ clpc' = "done") =>
               /\ "resultsCh" \notin closedCh
               /\ "resultsCh" \in closedCh'
          /\ closedCh \subseteq closedCh']_vars

\* a call with two scorers and three candidates has returned, both
\* channels closed
C27_Witness ==
  /\ mode = "pipeline" /\ pc = "done" /\ numWorkers = 2 /\ Len(photos) = 3
  /\ closedCh = {"photosToScoreCh", "resultsCh"}
  /\ \A w \in DOMAIN wpc : wpc[w] = "done"

\* how many candidates the producer has sent so far
Fed == IF pc = "feed" THEN i
       ELSE IF pc \in {"recvFinal", "done"} THEN Len(photos) ELSE 0

\* how many values equal to sp the collector has received so far
Collected(sp) ==
  IF sp \in DOMAIN hist.collected THEN hist.collected[sp] ELSE 0

\* C28: the pipeline neither loses nor duplicates a candidate.  Each
\* candidate sent so far is in exactly one place: in the candidates
\* channel, held by exactly one scorer, in the results channel as one
\* scoredPhoto carrying its Score, or received by the collector; the
\* collector has received exactly N values when it has seen the results
\* channel closed; and only the collector's receive changes the heap.
C28_ExactlyOnce ==
  /\ [](mode = "pipeline" /\ numWorkers >= 1 =>
          /\ \A x \in DOMAIN photos :
               LET sp == [photo |-> photos[x], score |-> Score(query, photos[x])]
               IN Occurrences(SubSeq(photos, 1, Fed), photos[x]) =
                    Occurrences(photosToScoreCh, photos[x])
                    + Cardinality({w \in DOMAIN held : held[w] = <<photos[x]>>})
                    + Occurrences(resultsCh, sp)
                    + Collected(sp)
          /\ \A y \in DOMAIN resultsCh :
               resultsCh[y].score = Score(query, resultsCh[y].photo)
          /\ \A sp \in DOMAIN hist.collected :
               /\ sp.score = Score(query, sp.photo)
               /\ \E x \in DOMAIN photos : photos[x] = sp.photo
          /\ cpc \in {"sendFinal", "done"} =>
               /\ "resultsCh" \in closedCh
               /\ \A x \in DOMAIN photos :
                    Collected([photo |-> photos[x],
                               score |-> Score(query, photos[x])])
                      = Occurrences(photos, photos[x]))
  /\ [][mode = "pipeline" /\ h' # h =>
          /\ cpc = "recv"
          /\ \/ resultsCh # <<>> /\ resultsCh' = Tail(resultsCh)
             \/ resultsCh = <<>> /\ cpc' = "sendFinal"]_vars

\* the collector has received all of three candidates, two of them equal,
\* scored by two scorers
C28_Witness ==
  /\ mode = "pipeline" /\ cpc = "sendFinal" /\ numWorkers = 2
  /\ Len(photos) = 3 /\ photos[1] = photos[3] /\ photos[1] # photos[2]
  /\ Collected([photo |-> photos[1], score |-> Score(query, photos[1])]) = 2

\* C29: the candidates channel has room for all N candidates, so a
\* producer that has a candidate left to send can always send it (none of
\* its N sends blocks) and the channel never holds more than N; the
\* results channel never holds more than 2*S scored photos.
C29_ChannelCapacities ==
  (mode = "pipeline" /\ numWorkers >= 1) =>
    /\ Len(photosToScoreCh) <= Len(photos)
    /\ Len(resultsCh) <= 2 * numWorkers
    /\ (pc = "feed" /\ i < Len(photos)) => ENABLED PipeFeed

\* all three candidates were sent while the only scorer is blocked on a
\* full results channel, the third candidate still in its channel
C29_Witness ==
  /\ mode = "pipeline" /\ pc = "recvFinal" /\ numWorkers = 1
  /\ Len(photos) = 3 /\ Len(resultsCh) = 2 /\ h = <<>>
  /\ wpc[0] = "send" /\ photosToScoreCh = <<>>

\* C30: the order of RankWS's shutdown.  A worker has returned only with
\* quitSignal closed; quitSignal is closed only when each of the N tasks
\* was scored and pushed once and its counter decrement done, no task left
\* in a deque or in a worker's hands; every decrement of the task counter
\* is by a worker whose task is already pushed, so the pushes are always
\* the decrements plus the workers between the two; and GetRankedPhotos
\* runs only when every worker has returned.
C30_ShutdownOrder ==
  /\ [](mode = "ws" /\ numWorkers >= 1 =>
          /\ \A w \in DOMAIN wpc : wpc[w] = "done" => quitSignal
          /\ quitSignal =>
               /\ \A x \in DOMAIN hist.pushed : hist.pushed[x] = 1
               /\ hist.decs = Len(photos) /\ tasksWg = 0
               /\ \A w \in DOMAIN wpc : deques[w] = <<>> /\ held[w] = <<>>
          /\ SumOver(DOMAIN hist.pushed, hist.pushed) =
               hist.decs + Cardinality({w \in DOMAIN wpc : wpc[w] = "taskDone"})
          /\ pc = "done" => \A w \in DOMAIN wpc : wpc[w] = "done")
  /\ [][mode = "ws" =>
          /\ tasksWg' < tasksWg =>
               \E w \in DOMAIN wpc :
                 /\ wpc[w] = "taskDone" /\ wpc'[w] # "taskDone"
                 /\ hist.pushed[held[w][1].idx] = 1
          /\ (pc = "waitPool" /\ pc' = "done") =>
               \A w \in DOMAIN wpc : wpc[w] = "done"
          /\ (quitSignal' /\ ~quitSignal) =>
               hist.decs = Len(photos)]_vars

\* a call with two workers, three tasks and a steal has returned
C30_Witness ==
  /\ mode = "ws" /\ pc = "done" /\ numWorkers = 2 /\ Len(photos) = 3
  /\ hist.stolen >= 1 /\ quitSignal
  /\ \A w \in DOMAIN wpc : wpc[w] = "done"

\* the tasks of the first n candidates that round-robin dealing gives
\* deque w of nw, in index order
DealtTo(w, n, nw) ==
  [j \in 1..((n + nw - 1 - w) \div nw) |->
     [Photo |-> photos[w + (j - 1) * nw + 1], Query |-> query,
      idx |-> w + (j - 1) * nw]]

\* C31: while RankWS distributes, and until its first worker is started,
\* no worker runs and deque w holds, in index order, the candidates dealt
\* so far whose index is w modulo W, the task counter being their number;
\* so when the first worker is about to start every candidate i is on
\* deque i mod W, the counter is N, no deque is empty and two deques differ
\* in size by at most 1.
C31_RoundRobinDistribution ==
  (mode = "ws" /\ numWorkers >= 1
     /\ (pc = "distribute" \/ (pc = "launch" /\ i = 0))) =>
    LET dealt == IF pc = "distribute" THEN i ELSE Len(photos)
    IN /\ \A w \in DOMAIN wpc : wpc[w] = "unborn"
       /\ \A w \in DOMAIN deques :
            deques[w] = DealtTo(w, dealt, numWorkers)
       /\ tasksWg = dealt
       /\ pc = "launch" =>
            /\ \A w \in DOMAIN deques : deques[w] # <<>>
            /\ \A w1, w2 \in DOMAIN deques :
                 Len(deques[w1]) - Len(deques[w2]) <= 1

\* three candidates lie on two deques and no worker has started
C31_Witness ==
  /\ mode = "ws" /\ pc = "launch" /\ i = 0 /\ numWorkers = 2
  /\ Len(photos) = 3 /\ tasksWg = 3
  /\ Len(deques[0]) = 2 /\ Len(deques[1]) = 1
  /\ deques[0][1].idx = 0 /\ deques[0][2].idx = 2 /\ deques[1][1].idx = 1

\* C32: the steal round of a RankWS worker.  A worker is in a steal round
\* only with W > 1 and its own deque empty, after its PopBottom found
\* nothing; the victims it has tried in the round are other workers, at
\* most min(W-1, 3) of them, and a round that goes on has tried fewer; a
\* steal attempt is on a worker not tried in this round and not the worker
\* itself, and a successful one ends the round with the task in hand; with
\* W = 1 nothing is ever stolen.
C32_StealRound ==
  /\ [](mode = "ws" /\ numWorkers >= 1 =>
          \A w \in DOMAIN wpc :
            /\ w \notin tried[w]
            /\ Cardinality(tried[w]) <= Min(numWorkers - 1, 3)
            /\ wpc[w] = "steal" =>
                 /\ numWorkers > 1 /\ deques[w] = <<>>
                 /\ Cardinality(tried[w]) < Min(numWorkers - 1, 3)
            /\ numWorkers = 1 => hist.stolen = 0 /\ tried[w] = {})
  /\ [][mode = "ws" /\ numWorkers >= 1 /\ pc' # "call" =>
          \A w \in DOMAIN wpc :
            /\ (tried'[w] # tried[w] /\ tried'[w] # {}) =>
                 /\ wpc[w] = "steal"
                 /\ \E peerIdx \in DOMAIN wpc \ ({w} \cup tried[w]) :
                      /\ tried'[w] = tried[w] \cup {peerIdx}
                      /\ deques[peerIdx] = <<>>
            /\ (hist.stolen' > hist.stolen /\ wpc[w] = "steal"
                  /\ wpc'[w] # "steal") =>
                 /\ wpc'[w] = "push"
                 /\ \E peerIdx \in DOMAIN wpc \ ({w} \cup tried[w]) :
                      /\ deques[peerIdx] # <<>>
                      /\ held'[w] = <<deques[peerIdx][1]>>
                      /\ deques'[peerIdx] = Tail(deques[peerIdx])
                      /\ \A x \in DOMAIN deques \ {peerIdx} :
                           deques'[x] = deques[x]
            /\ hist.stolen' > hist.stolen =>
                 \E v \in DOMAIN wpc : wpc[v] = "steal" /\ wpc'[v] = "push"]_vars

\* a worker of five has found three victims empty and ended its round,
\* the fourth peer untried, after a steal had succeeded earlier
C32_Witness ==
  /\ mode = "ws" /\ numWorkers = 5 /\ hist.stolen >= 1
  /\ \E w \in DOMAIN wpc : wpc[w] = "idle" /\ Cardinality(tried[w]) = 3

\* the greatest and the least of a non-empty set of task numbers
Newest(S) == CHOOSE x \in S : \A y \in S : y <= x
Oldest(S) == CHOOSE x \in S : \A y \in S : x <= y

\* the sequence s without its entries equal to x
Without(s, x) == SelectSeq(s, LAMBDA y : y # x)

\* C33: Deque operations in sequence, tasks being numbered in the order
\* they are pushed.  PushBottom puts the task at the tail and changes
\* nothing else; PopBottom returns the most recently pushed task still
\* present and PopTop the oldest one, and each removes exactly the task it
\* returns, the others keeping their order; a pop on an empty deque returns
\* (zero task, false) and leaves the deque as it is.
C33_DequeLifoFifo ==
  [][mode = "dequeops" =>
       LET present == Range(dTasks)
       IN /\ gpc' = <<"PushBottom">> =>
               /\ Len(dTasks') = Len(dTasks) + 1
               /\ dTasks'[Len(dTasks')] = numTasks'
               /\ SubSeq(dTasks', 1, Len(dTasks)) = dTasks
          /\ (gpc' \in {<<"PopBottom">>, <<"PopTop">>} /\ present = {}) =>
               popTask' = <<0>> /\ dTasks' = dTasks
          /\ (gpc' = <<"PopBottom">> /\ present # {}) =>
               /\ popTask' = <<Newest(present)>>
               /\ dTasks' = Without(dTasks, Newest(present))
          /\ (gpc' = <<"PopTop">> /\ present # {}) =>
               /\ popTask' = <<Oldest(present)>>
               /\ dTasks' = Without(dTasks, Oldest(present))]_vars

\* of three tasks PopTop has returned the first, PopBottom the third, and
\* two more pops the second and then nothing
C33_Witness ==
  /\ mode = "dequeops" /\ numTasks = 3 /\ dTasks = <<>>
  /\ returned = <<1, 3, 2, 0>> /\ gpc = <<"PopTop">>

\* the tasks popped by a worker and not yet counted as done
InHand == {w \in DOMAIN held : held[w] # <<>>}

\* C34: task conservation in RankWS.  Once the distribution is over, the
\* tasks in the deques, the tasks in a worker's hands and the tasks counted
\* as done are N together, every task being in a deque or in one worker's
\* hands at most once, and the outstanding-task counter is N minus the
\* tasks counted as done.
C34_TaskConservation ==
  (mode = "ws" /\ numWorkers >= 1 /\ pc \notin {"call", "distribute"}) =>
    /\ SumOver(DOMAIN deques, [w \in DOMAIN deques |-> Len(deques[w])])
         + Cardinality(InHand) + hist.decs = Len(photos)
    /\ tasksWg = Len(photos) - hist.decs
    /\ \A x \in 0..(Len(photos) - 1) :
         Cardinality({<<w, y>> \in (DOMAIN deques) \X (1..Len(photos)) :
                        y <= Len(deques[w]) /\ deques[w][y].idx = x})
           + Cardinality({w \in InHand : held[w][1].idx = x}) <= 1
    /\ \A w \in DOMAIN wpc : held[w] # <<>> <=> wpc[w] \in {"push", "taskDone"}

\* one task is in a deque, one stolen task is in a worker's hands and one
\* is counted as done
C34_Witness ==
  /\ mode = "ws" /\ numWorkers = 2 /\ Len(photos) = 3 /\ hist.decs = 1
  /\ hist.stolen = 1 /\ Cardinality(InHand) = 1 /\ tasksWg = 2
  /\ \E w \in DOMAIN deques : Len(deques[w]) = 1

\* C35: the Barrier's count between critical sections.  Whenever the
\* mutex is free, 0 <= count < n and count is the number of goroutines that
\* have arrived for the current phase and still wait for its release: the
\* goroutines released by the last Broadcast, even those that have not yet
\* resumed, are not counted, so an arrival for the next phase starts from
\* a count the previous phase has left at 0.
C35_CountIsWaiters ==
  mode = "barrier" =>
    /\ 0 <= count /\ count < numGoroutines
    /\ count = Cardinality({g \in DOMAIN gpc : gpc[g] = "waiting"})
    /\ \A g1, g2 \in DOMAIN gpc :
         gpc[g1] = "waiting" /\ gpc[g2] = "waiting" => cycle[g1] = cycle[g2]
    /\ \A g1, g2 \in DOMAIN gpc :
         gpc[g1] = "woken" /\ gpc[g2] = "waiting" => cycle[g2] = cycle[g1] + 1

\* a goroutine waits in the next phase, counted alone, while a goroutine
\* released from the previous phase has not resumed yet
C35_Witness ==
  /\ mode = "barrier" /\ numGoroutines = 3 /\ count = 1
  /\ \E g1, g2 \in DOMAIN gpc :
       /\ gpc[g1] = "woken" /\ gpc[g2] = "waiting"
       /\ cycle[g2] = cycle[g1] + 1

\* C36: one ordering everywhere.  For two scored photos a and b that
\* differ in score, downloads or id, each package's heap comparator
\* Less(b, a), its test that a replaces the root b, and its sort comparator
\* for a before b agree, and the four packages give the same answer: a is
\* above b by score, then by downloads, then by the smaller id.
C36_OneOrdering ==
  (mode = "order" /\ verdicts # <<>>) =>
    LET a == scoredResults[1]
        b == scoredResults[2]
        above == \/ a.score > b.score
                 \/ a.score = b.score
                    /\ a.photo.StatsDownloads > b.photo.StatsDownloads
                 \/ a.score = b.score
                    /\ a.photo.StatsDownloads = b.photo.StatsDownloads
                    /\ StrLess(a.photo.PhotoID, b.photo.PhotoID)
    IN <<a.score, a.photo.StatsDownloads, a.photo.PhotoID>> #
         <<b.score, b.photo.StatsDownloads, b.photo.PhotoID>> =>
         \A pkg \in Packages :
           /\ verdicts[pkg].less = verdicts[pkg].replaces
           /\ verdicts[pkg].replaces = verdicts[pkg].before
           /\ verdicts[pkg] = verdicts["textmatch"]
           /\ verdicts[pkg].before = above

\* the comparisons were made of two photos that tie on score and
\* downloads, the id of the first a proper prefix of the second's
C36_Witness ==
  /\ mode = "order" /\ verdicts # <<>>
  /\ scoredResults[1].score = scoredResults[2].score
  /\ scoredResults[1].photo.StatsDownloads = scoredResults[2].photo.StatsDownloads
  /\ scoredResults[1].photo.PhotoID = <<65>>
  /\ scoredResults[2].photo.PhotoID = <<65, 65>>
  /\ \A pkg \in Packages : verdicts[pkg].before

\* the elements that the step dropped: those of h and the offered sp of
\* which h' holds fewer copies than h and the offer brought
Dropped(sp) ==
  {x \in Range(h) \cup {sp} :
     Occurrences(h', x) <
       Occurrences(h, x) + (IF x = sp THEN 1 ELSE 0)}

\* C37: the top-K threshold only rises.  An offer (an iteration of Rank,
\* a receive of the pipeline's collector, a Collector.Push) to a heap
\* that holds K elements leaves it holding K, its new root is not below
\* its old root, nothing enters the heap but the offered photo, exactly
\* one element (the evicted root or the rejected photo) is dropped, and
\* the dropped element is not above the new root: with a root that never
\* falls it stays out of the heap until the extraction unless offered
\* again.
C37_ThresholdOnlyRises ==
  [][ (Offered # <<>> /\ topK >= 1 /\ Len(h) = topK) =>
        LET sp == Offered[1]
        IN /\ Len(h') = topK
           /\ ~SpBelow(h'[1], h[1])
           /\ \A x \in Range(h') :
                Occurrences(h', x) <=
                  Occurrences(h, x) + (IF x = sp THEN 1 ELSE 0)
           /\ Cardinality(Dropped(sp)) = 1
           /\ \A x \in Dropped(sp) : ~SpBelow(h'[1], x) ]_vars

\* Rank with K = 1 went through three photos: the one it holds is
\* strictly above the first, which was evicted, and strictly above the
\* third, which was rejected
C37_Witness ==
  /\ mode = "seq" /\ topK = 1 /\ Len(photos) = 3 /\ i = 3 /\ Len(h) = 1
  /\ h[1] = [photo |-> photos[2], score |-> Score(query, photos[2])]
  /\ SpBelow([photo |-> photos[1], score |-> Score(query, photos[1])], h[1])
  /\ SpBelow([photo |-> photos[3], score |-> Score(query, photos[3])], h[1])

\* C38: barrier construction rejects non-positive sizes.  Once New(n) was
\* called with n <= 0 the test has panicked and there is no barrier and no
\* caller of Wait; on a barrier of size 1 no call of Wait blocks (every
\* call made has returned, no goroutine waits on the condition) and the
\* arrival count is 0, however many goroutines call it.
C38_NewRejectsNonPositive ==
  (mode = "barrier" /\ pc # "call") =>
    /\ reqWorkers <= 0 =>
         pc = "panic" /\ numGoroutines = 0 /\ gpc = <<>>
    /\ numGoroutines = 1 =>
         /\ count = 0
         /\ \A g \in DOMAIN gpc :
              /\ gpc[g] \notin {"waiting", "woken"}
              /\ waitReturns[g] = waitCalls[g]

\* New(-1) has panicked
C38_Witness ==
  /\ mode = "barrier" /\ pc = "panic" /\ reqWorkers = -1
  /\ numGoroutines = 0

\* two goroutines have each made two calls of Wait on a barrier of size 1
C38_SingleReached ==
  /\ mode = "barrier" /\ pc = "run" /\ numGoroutines = 1
  /\ DOMAIN gpc = {0, 1}
  /\ \A g \in DOMAIN gpc : waitReturns[g] = 2

============================================================================
